---- MODULE Spec2Model ----
(***************************************************************************)
(* Verification model of the strategy evaluation and consensus pipeline    *)
(* of imnuman/trading-tool: ensemble voting (src/ai/ensemble.py), trend    *)
(* filter (src/ai/trend_filter.py), regime classifier                      *)
(* (src/ai/regime_detector.py), risk gate (src/risk/risk_manager.py,       *)
(* src/risk/correlation_manager.py, src/data/economic_calendar.py),        *)
(* backtest engine (src/backtesting/backtest_engine.py), walk-forward      *)
(* validator (src/backtesting/walk_forward.py) and the notification paths  *)
(* of the Telegram front-end (src/telegram/bot.py).                        *)
(*                                                                         *)
(* Conventions.  Python floats are modelled by exact rationals, records    *)
(* [n |-> numerator, d |-> denominator] with d > 0.  Python None is the    *)
(* record NoneV.  Each component has its own specification (its Init draws *)
(* the inputs of one call from bounded sets, its actions are the calls);   *)
(* the variables of the other components stay at their idle values.        *)
(***************************************************************************)
EXTENDS Integers, Sequences, FiniteSets, TLC

(***************************************************************************)
(* Exact rational arithmetic                                               *)
(***************************************************************************)
RECURSIVE GCD(_, _)
GCD(a, b) ==
    IF b = 0 THEN a ELSE GCD(b, a % b)

Abs(x) ==
    IF x < 0 THEN -x ELSE x

Frac(num, den) ==
    [n |-> num, d |-> den]

FNorm(f) ==
    LET g == GCD(Abs(f.n), f.d)
    IN  IF g = 0 THEN f ELSE [n |-> f.n \div g, d |-> f.d \div g]

FInt(k) ==
    Frac(k, 1)

\* sums and products are taken over the least common denominator and after
\* cancelling across, which keeps the intermediate integers small
FAdd(a, b) ==
    LET g == GCD(a.d, b.d)
    IN  FNorm(Frac(a.n * (b.d \div g) + b.n * (a.d \div g), (a.d \div g) * b.d))

FSub(a, b) ==
    LET g == GCD(a.d, b.d)
    IN  FNorm(Frac(a.n * (b.d \div g) - b.n * (a.d \div g), (a.d \div g) * b.d))

FMul(a, b) ==
    LET g1 == GCD(Abs(a.n), b.d)
        g2 == GCD(Abs(b.n), a.d)
    IN  FNorm(Frac((a.n \div g1) * (b.n \div g2), (a.d \div g2) * (b.d \div g1)))

\* -1, 0 or 1 as an/ad is below, equal to or above bn/bd: by the integer
\* parts and, when they agree, by the remainders' reciprocals the other way
\* round (no product is formed, so no intermediate integer grows)
RECURSIVE Compare(_, _, _, _)
Compare(an, ad, bn, bd) ==
    LET qa == an \div ad
        qb == bn \div bd
        ra == an % ad
        rb == bn % bd
    IN  IF qa # qb THEN (IF qa < qb THEN -1 ELSE 1)
        ELSE IF ra = 0 \/ rb = 0
        THEN (IF ra = rb THEN 0 ELSE IF ra = 0 THEN -1 ELSE 1)
        ELSE Compare(bd, rb, ad, ra)

FDiff(a, b) ==
    Compare(a.n, a.d, b.n, b.d)

FGe(a, b) ==
    FDiff(a, b) >= 0

FGt(a, b) ==
    FDiff(a, b) > 0

FLt(a, b) ==
    FDiff(a, b) < 0

FEq(a, b) ==
    FDiff(a, b) = 0

FMin(a, b) ==
    IF FLt(b, a) THEN b ELSE a

FMax(a, b) ==
    IF FGt(b, a) THEN b ELSE a

FAbs(a) ==
    Frac(Abs(a.n), a.d)

RECURSIVE SumSeq(_)
SumSeq(s) ==
    IF s = <<>> THEN 0 ELSE Head(s) + SumSeq(Tail(s))

\* the sum of a list of rationals, by halves
RECURSIVE FSumSeq(_)
FSumSeq(s) ==
    IF s = <<>> THEN FInt(0)
    ELSE IF Len(s) = 1 THEN s[1]
    ELSE LET half == Len(s) \div 2
         IN  FAdd(FSumSeq(SubSeq(s, 1, half)), FSumSeq(SubSeq(s, half + 1, Len(s))))

\* np.mean of a non-empty list of rationals
FMean(s) ==
    FMul(FSumSeq(s), Frac(1, Len(s)))

\* the number of elements of s that satisfy Test
CountSeq(s, Test(_)) ==
    Len(SelectSeq(s, Test))

\* Python None
NoneV ==
    [none |-> TRUE]

\* float('nan') of a numeric column whose other values are non-negative
NaN ==
    -1

(***************************************************************************)
(* Bounds of the model                                                     *)
(***************************************************************************)
\* strategies handed to one ensemble
MaxStrategies ==
    10

(***************************************************************************)
(* State                                                                   *)
(***************************************************************************)
VARIABLES
    \* EnsembleSignalGenerator: fields, the arguments of one generate_signal
    \* call, where the call stands, what it computed and what it returned
    strategies, min_agreement, min_confidence, use_regime_filter,
    use_trend_filter, ens_in, ens_pc, ens_locals, ens_signal,
    \* RiskManager: the two filter switches, the arguments of one
    \* check_signal_safety call (with the clock reading it makes), where the
    \* call stands and how it ended
    use_news_filter, use_correlation_filter, risk_in, risk_pc, risk_out,
    \* Backtesting: the caller's DataFrame, cost parameters and strategy, the
    \* engines built from them, the trade list each engine's last run left,
    \* the runs made on each engine and the outcomes seen
    bt_data, bt_costs, bt_strategy, engines, bt_scratch, bt_runs, bt_outcomes,
    \* one _calculate_metrics call: its trade list, where it stands, its result
    met_trades, met_pc, met_result,
    \* WalkForwardOptimizer: min_periods, the windows of one
    \* walk_forward_backtest call with the two results of each, where the call
    \* stands and the dict it returned
    wf_min_periods, wf_windows, wf_pc, wf_result,
    \* RegimeDetector: lookback_periods, the closes of the window handed to
    \* one detect_regime call and the ADX of its last lookback_periods bars,
    \* where the call stands and what it returned
    lookback_periods, reg_close, reg_adx, reg_pc, reg_out,
    \* DriftDetector: drift_threshold and min_trades_for_detection, the
    \* arguments of one detect_performance_drift call (with the verdict of
    \* the distribution test), where the call stands and what it returned
    drift_threshold, min_trades_for_detection, drift_in, drift_pc, drift_out,
    \* CorrelationManager: the two names of one calculate_correlation call,
    \* where the call stands and what it returned
    corr_in, corr_pc, corr_out,
    \* pre_deploy.main: the engine built on the training data, the generated
    \* strategies, the results collected so far, what was saved and where
    \* the loop stands
    train_engine, batch_strategies, batch_results, batch_saved, batch_pc,
    \* the periodic tasks: whether cancel() was called on the bot's two
    \* tasks; for the signal check and the status summary where the task
    \* stands, what the pass in flight did so far and what the last
    \* finished pass did; LearningLoop.running, where the
    \* learning task stands and the updates it made
    cancel_requested, auto_pc, auto_at, auto_progress, auto_last,
    status_pc, status_progress, status_last,
    running, learn_pc, learn_updates,
    \* construction: the component, the arguments of its constructor and
    \* the object built or the exception raised
    built_kind, built_args, built,
    \* StrategyGenerator: generated_strategies, and of the last call of
    \* generate_batch the argument, generated_strategies before it and the
    \* value returned (in `returned') or the exception
    generated_strategies, gen_n, gen_before, gen_out,
    \* DriftDetector's alert cooldown: alert_cooldown_hours, last_alert_time,
    \* the UTC clock in hours, for every strategy the hour of the last
    \* mark_alert_sent call made for it (-1: none), and the strategy and the
    \* answer of a should_send_alert call made at the present hour
    alert_cooldown_hours, last_alert_time, alert_now, alert_marked_at,
    alert_answer,
    \* CorrelationManager: correlation_threshold, max_positions_per_currency,
    \* the signal and the positions of a call, where the call stands, what
    \* check_correlation_conflict and what filter_signal_by_correlation gave
    manager_correlation_threshold, manager_max_positions, conflict_in,
    conflict_pc, conflict_out, filter_out,
    \* TrendFilter: min_timeframe_alignment, trend_strength_threshold, the
    \* signal and the three data frames of a call, where the call stands,
    \* what check_multi_timeframe_trend and what filter_signal_by_trend gave
    tf_min_alignment, tf_strength_threshold, tf_in, tf_pc, tf_alignment,
    tf_out,
    \* WalkForwardOptimizer.generate_windows: the optimizer's fields, the frame, current_train_start, the windows collected, where the call stands and what it returned
    gw_config, gw_data, gw_start, gw_windows, gw_pc, gw_out,
    \* _execute_trades: the signal frame and the costs of a call, the rows walked, the trades and the open position, where the call stands and what it returned
    ex_signals, ex_costs, ex_i, ex_state, ex_pc, ex_out,
    \* one filter_strategies_by_regime call over catalog strategies
    rf_families, rf_regime, rf_min_compatibility, rf_pc, rf_out,
    \* TradingBot: whether set_ensemble has run, _notification_chat_id, what
    \* the data service and the clock answer, the messages of the last
    \* handler run and the signals saved to the database
    bot_ensemble_set, notification_chat_id, market, bot_now, bot_sent, bot_db

ensVars ==
    <<strategies, min_agreement, min_confidence, use_regime_filter,
      use_trend_filter, ens_in, ens_pc, ens_locals, ens_signal>>

riskVars ==
    <<use_news_filter, use_correlation_filter, risk_in, risk_pc, risk_out>>

botVars ==
    <<bot_ensemble_set, notification_chat_id, market, bot_now, bot_sent, bot_db>>

btVars ==
    <<bt_data, bt_costs, bt_strategy, engines, bt_scratch, bt_runs, bt_outcomes>>

metVars ==
    <<met_trades, met_pc, met_result>>

wfVars ==
    <<wf_min_periods, wf_windows, wf_pc, wf_result>>

regVars ==
    <<lookback_periods, reg_close, reg_adx, reg_pc, reg_out>>

driftVars ==
    <<drift_threshold, min_trades_for_detection, drift_in, drift_pc, drift_out>>

corrVars ==
    <<corr_in, corr_pc, corr_out>>

batchVars ==
    <<train_engine, batch_strategies, batch_results, batch_saved, batch_pc>>

taskVars ==
    <<cancel_requested, auto_pc, auto_at, auto_progress, auto_last,
      status_pc, status_progress, status_last,
      running, learn_pc, learn_updates>>

buildVars ==
    <<built_kind, built_args, built>>

genVars ==
    <<generated_strategies, gen_n, gen_before, gen_out>>

alertVars ==
    <<alert_cooldown_hours, last_alert_time, alert_now, alert_marked_at,
      alert_answer>>

conflictVars ==
    <<manager_correlation_threshold, manager_max_positions, conflict_in,
      conflict_pc, conflict_out, filter_out>>

trendVars ==
    <<tf_min_alignment, tf_strength_threshold, tf_in, tf_pc, tf_alignment,
      tf_out>>

regimeFilterVars ==
    <<rf_families, rf_regime, rf_min_compatibility, rf_pc, rf_out>>

walkVars ==
    <<ex_signals, ex_costs, ex_i, ex_state, ex_pc, ex_out>>

windowVars ==
    <<gw_config, gw_data, gw_start, gw_windows, gw_pc, gw_out>>

vars ==
    <<ensVars, riskVars, botVars, btVars, metVars, wfVars, regVars, driftVars, corrVars, batchVars, taskVars, buildVars, genVars, alertVars, conflictVars, trendVars, regimeFilterVars, walkVars, windowVars>>

(***************************************************************************)
(* Regime Classifier: strategy-regime compatibility                        *)
(* A strategy type is the sequence of its '_'-separated tokens.            *)
(***************************************************************************)
REGIME_TYPES ==
    {"trending_up", "trending_down", "ranging", "volatile"}

\* compatibility scores, in tenths
TrendingRow ==
    (<<"ema", "cross">> :> 10) @@ (<<"macd">> :> 9) @@ (<<"ichimoku">> :> 9) @@
    (<<"atr", "range">> :> 3) @@ (<<"rsi", "reversal">> :> 4) @@
    (<<"bollinger">> :> 5) @@ (<<"volume", "breakout">> :> 8) @@
    (<<"support", "resistance">> :> 6)

RangingRow ==
    (<<"ema", "cross">> :> 3) @@ (<<"macd">> :> 2) @@ (<<"ichimoku">> :> 2) @@
    (<<"atr", "range">> :> 9) @@ (<<"rsi", "reversal">> :> 10) @@
    (<<"bollinger">> :> 10) @@ (<<"volume", "breakout">> :> 4) @@
    (<<"support", "resistance">> :> 8)

VolatileRow ==
    (<<"ema", "cross">> :> 4) @@ (<<"macd">> :> 3) @@ (<<"ichimoku">> :> 3) @@
    (<<"atr", "range">> :> 7) @@ (<<"rsi", "reversal">> :> 6) @@
    (<<"bollinger">> :> 7) @@ (<<"volume", "breakout">> :> 5) @@
    (<<"support", "resistance">> :> 6)

compatibility ==
    [r \in REGIME_TYPES |->
        CASE r = "ranging" -> RangingRow
          [] r = "volatile" -> VolatileRow
          [] OTHER -> TrendingRow]

\* regime_map.get(strategy_base, 0.5), in tenths
DefaultCompatibility ==
    5

get_strategy_compatibility(strategy_type, regime) ==
    LET strategy_base == IF Len(strategy_type) > 1
                         THEN <<strategy_type[1]>>
                         ELSE strategy_type
    IN  IF regime \in DOMAIN compatibility
           /\ strategy_base \in DOMAIN compatibility[regime]
        THEN compatibility[regime][strategy_base]
        ELSE DefaultCompatibility

filter_strategies_by_regime(strats, regime, min_compatibility) ==
    LET Compatible(s) ==
            get_strategy_compatibility(s.type, regime) >= min_compatibility
    IN  SelectSeq(strats, Compatible)

\* min_compatibility=0.6 passed by generate_signal, in tenths
EnsembleMinCompatibility ==
    6

(***************************************************************************)
(* Trend Filter.  A timeframe's trend is detect_trend's answer for it:     *)
(* [direction, strength] with strength in hundredths; `trends' maps the    *)
(* timeframes whose data frame is given and non-empty to their trend.      *)
(***************************************************************************)
\* TrendFilter.__init__ defaults
MinTimeframeAlignment ==
    2

TrendStrengthThreshold ==
    Frac(6, 10)

CountDirection(trends, dir) ==
    Cardinality({t \in DOMAIN trends : trends[t].direction = dir})

\* weight * strength of one timeframe when it points the way of `alignment'
WeightedPart(trends, tf, weight, alignment) ==
    IF tf \in DOMAIN trends /\ trends[tf].direction = alignment
    THEN Frac(weight * trends[tf].strength, 1000)
    ELSE FInt(0)

MaxInt(a, b) ==
    IF a >= b THEN a ELSE b

check_multi_timeframe_trend(trends, min_timeframe_alignment, trend_strength_threshold) ==
    LET bullish_count == CountDirection(trends, "bullish")
        bearish_count == CountDirection(trends, "bearish")
        neutral_count == CountDirection(trends, "neutral")
        total_timeframes == Cardinality(DOMAIN trends)
        alignment == IF bullish_count >= min_timeframe_alignment THEN "bullish"
                     ELSE IF bearish_count >= min_timeframe_alignment THEN "bearish"
                     ELSE "neutral"
        alignment_strength ==
            IF alignment = "bullish" THEN Frac(bullish_count, total_timeframes)
            ELSE IF alignment = "bearish" THEN Frac(bearish_count, total_timeframes)
            ELSE Frac(MaxInt(neutral_count, MaxInt(bullish_count, bearish_count)),
                      total_timeframes)
        weighted_score ==
            FAdd(WeightedPart(trends, "1d", 5, alignment),
                 FAdd(WeightedPart(trends, "4h", 3, alignment),
                      WeightedPart(trends, "1h", 2, alignment)))
        is_aligned ==
            /\ alignment # "neutral"
            /\ FGe(alignment_strength, Frac(min_timeframe_alignment, total_timeframes))
            /\ FGe(weighted_score, trend_strength_threshold)
    IN  [aligned |-> is_aligned,
         alignment |-> alignment,
         alignment_strength |-> alignment_strength,
         weighted_score |-> weighted_score,
         bullish_count |-> bullish_count,
         bearish_count |-> bearish_count,
         neutral_count |-> neutral_count,
         total_timeframes |-> total_timeframes]

\* a variant of filter_signal_by_trend without the two direction tests
filter_signal_by_trend_aligned_only(signal, trend_alignment) ==
    IF ~trend_alignment.aligned THEN NoneV
    ELSE
        LET trend_strength == trend_alignment.weighted_score
            confidence_boost ==
                IF FGt(trend_strength, Frac(8, 10)) THEN 5
                ELSE IF FGt(trend_strength, Frac(6, 10)) THEN 3
                ELSE 1
        IN  [signal EXCEPT
                !.confidence = FMin(FInt(100), FAdd(signal.confidence, FInt(confidence_boost))),
                !.trend_aligned = TRUE,
                !.trend_strength = trend_strength]

filter_signal_by_trend(signal, trend_alignment) ==
    IF ~trend_alignment.aligned THEN NoneV
    ELSE IF signal.direction = "buy" /\ trend_alignment.alignment = "bearish" THEN NoneV
    ELSE IF signal.direction = "sell" /\ trend_alignment.alignment = "bullish" THEN NoneV
    ELSE
        LET trend_strength == trend_alignment.weighted_score
            confidence_boost ==
                IF FGt(trend_strength, Frac(8, 10)) THEN 5
                ELSE IF FGt(trend_strength, Frac(6, 10)) THEN 3
                ELSE 1
        IN  [signal EXCEPT
                !.confidence = FMin(FInt(100), FAdd(signal.confidence, FInt(confidence_boost))),
                !.trend_aligned = TRUE,
                !.trend_strength = trend_strength]

(***************************************************************************)
(* Ensemble Decision Engine                                                *)
(* A strategy is [id, type].  ens_in.polls[id] is what                     *)
(* BacktestEngine(data.tail(1000))._generate_signals(strategy) gives for   *)
(* that strategy on the data of the call: kind "error" (it raised),        *)
(* "empty" (no rows), "flat" (no non-zero signal row), "nan_entry" (latest *)
(* signal row has no entry price), "long"/"short" (latest signal row is    *)
(* 1 / -1) with that row's entry_price, stop_loss and take_profit.         *)
(***************************************************************************)
\* 'confidence': 70.0 of every strategy signal
BaseConfidence ==
    70

get_strategy_signal(poll) ==
    IF poll.kind = "error" THEN NoneV
    ELSE IF poll.kind = "empty" THEN NoneV
    ELSE IF poll.kind = "flat" THEN NoneV
    ELSE IF poll.kind = "nan_entry" THEN NoneV
    ELSE [direction |-> IF poll.kind = "long" THEN "buy" ELSE "sell",
          entry |-> poll.entry_price,
          stop_loss |-> poll.stop_loss,
          take_profit |-> poll.take_profit,
          confidence |-> FInt(BaseConfidence)]

\* Python truthiness of an optional number
Truthy(x) ==
    x # NoneV /\ x.n # 0

MapField(s, Field(_)) ==
    [i \in 1..Len(s) |-> Field(s[i])]

calculate_levels(strategy_signals, direction, current_price) ==
    LET Matches(s) == s.direction = direction
        matching_signals == SelectSeq(strategy_signals, Matches)
        EntryOf(s) == s.entry
        StopOf(s) == s.stop_loss
        TakeOf(s) == s.take_profit
        HasStop(s) == Truthy(s.stop_loss)
        HasTake(s) == Truthy(s.take_profit)
        entries == MapField(matching_signals, EntryOf)
        stop_losses == MapField(SelectSeq(matching_signals, HasStop), StopOf)
        take_profits == MapField(SelectSeq(matching_signals, HasTake), TakeOf)
        avg_entry == FMean(entries)
    IN  IF matching_signals = <<>>
        THEN [entry_zone |-> <<FMul(current_price, Frac(999, 1000)),
                               FMul(current_price, Frac(1001, 1000))>>,
              stop_loss |-> FMul(current_price, Frac(99, 100)),
              take_profit |-> FMul(current_price, Frac(101, 100))]
        ELSE [entry_zone |-> <<FMul(avg_entry, Frac(999, 1000)),
                               FMul(avg_entry, Frac(1001, 1000))>>,
              stop_loss |->
                  IF stop_losses # <<>> THEN FMean(stop_losses)
                  ELSE IF direction = "buy" THEN FMul(current_price, Frac(98, 100))
                  ELSE FMul(current_price, Frac(102, 100)),
              take_profit |->
                  IF take_profits # <<>> THEN FMean(take_profits)
                  ELSE IF direction = "buy" THEN FMul(current_price, Frac(104, 100))
                  ELSE FMul(current_price, Frac(96, 100))]

MinInt(a, b) ==
    IF a <= b THEN a ELSE b

\* calculate_confidence as it would be with the two blend weights exchanged
calculate_confidence_swapped(agreement, strategy_signals, direction) ==
    LET Matches(s) == s.direction = direction
        matching == SelectSeq(strategy_signals, Matches)
        ConfOf(s) == s.confidence
        base_confidence == FMul(agreement, FInt(100))
        avg_strategy_confidence == FMean(MapField(matching, ConfOf))
        confidence == FAdd(FMul(base_confidence, Frac(4, 10)),
                           FMul(avg_strategy_confidence, Frac(6, 10)))
        num_strategies_bonus == MinInt(Len(matching) * 2, 10)
    IN  IF matching = <<>> THEN FInt(0)
        ELSE FMin(FAdd(confidence, FInt(num_strategies_bonus)), FInt(100))

calculate_confidence(agreement, strategy_signals, direction) ==
    LET Matches(s) == s.direction = direction
        matching == SelectSeq(strategy_signals, Matches)
        ConfOf(s) == s.confidence
        base_confidence == FMul(agreement, FInt(100))
        avg_strategy_confidence == FMean(MapField(matching, ConfOf))
        confidence == FAdd(FMul(base_confidence, Frac(6, 10)),
                           FMul(avg_strategy_confidence, Frac(4, 10)))
        num_strategies_bonus == MinInt(Len(matching) * 2, 10)
    IN  IF matching = <<>> THEN FInt(0)
        ELSE FMin(FAdd(confidence, FInt(num_strategies_bonus)), FInt(100))

\* determine_direction as it would be with the threshold test dropped: the
\* side with more votes wins
determine_direction_majority(buy_agreement, sell_agreement, min_agr) ==
    IF FGe(buy_agreement, sell_agreement)
    THEN [direction |-> "buy", agreement |-> buy_agreement]
    ELSE [direction |-> "sell", agreement |-> sell_agreement]

\* direction and agreement of generate_signal ("Determine direction")
determine_direction(buy_agreement, sell_agreement, min_agr) ==
    IF FGe(buy_agreement, min_agr)
    THEN [direction |-> "buy", agreement |-> buy_agreement]
    ELSE IF FGe(sell_agreement, min_agr)
    THEN [direction |-> "sell", agreement |-> sell_agreement]
    ELSE [direction |-> "none", agreement |-> FInt(0)]

\* what a generate_signal call computed before it returned; fields it did
\* not reach keep these values
NoLocals ==
    [stage |-> "not_run", polled |-> 0, buy_votes |-> 0, sell_votes |-> 0,
     total_votes |-> 0, direction |-> "none", agreement |-> FInt(0),
     matching |-> 0, confidence |-> FInt(0)]

\* generate_signal; the result is [signal, locals], signal being the value
\* returned (NoneV or the signal dictionary)
generate_signal(strats, min_agr, min_conf, use_regime, use_trend, inp) ==
    LET active_strategies ==
            IF use_regime
            THEN filter_strategies_by_regime(strats, inp.regime, EnsembleMinCompatibility)
            ELSE strats
        PollOf(s) == [strategy_id |-> s.id,
                      signal |-> get_strategy_signal(inp.polls[s.id])]
        polled == MapField(active_strategies, PollOf)
        Voted(p) == p.signal # NoneV
        ToStrategySignal(p) ==
            [strategy_id |-> p.strategy_id,
             direction |-> p.signal.direction,
             confidence |-> p.signal.confidence,
             entry |-> p.signal.entry,
             stop_loss |-> p.signal.stop_loss,
             take_profit |-> p.signal.take_profit]
        strategy_signals == MapField(SelectSeq(polled, Voted), ToStrategySignal)
        IsBuy(s) == s.direction = "buy"
        IsSell(s) == s.direction = "sell"
        buy_votes == CountSeq(strategy_signals, IsBuy)
        sell_votes == CountSeq(strategy_signals, IsSell)
        total_votes == Len(strategy_signals)
        buy_agreement == IF total_votes > 0
                         THEN FNorm(Frac(buy_votes, total_votes)) ELSE FInt(0)
        sell_agreement == IF total_votes > 0
                          THEN FNorm(Frac(sell_votes, total_votes)) ELSE FInt(0)
        dd == determine_direction(buy_agreement, sell_agreement, min_agr)
        direction == dd.direction
        agreement == dd.agreement
        levels == calculate_levels(strategy_signals, direction, inp.current_price)
        confidence == calculate_confidence(agreement, strategy_signals, direction)
        Used(s) == s.direction = direction
        IdOf(s) == s.strategy_id
        strategies_used == MapField(SelectSeq(strategy_signals, Used), IdOf)
        signal == [pair |-> inp.pair,
                   direction |-> direction,
                   entry_zone |-> levels.entry_zone,
                   stop_loss |-> levels.stop_loss,
                   take_profit |-> levels.take_profit,
                   confidence |-> confidence,
                   strategies_used |-> strategies_used,
                   agreement |-> agreement,
                   trend_aligned |-> FALSE,
                   trend_strength |-> FInt(0)]
        trend_alignment ==
            check_multi_timeframe_trend(inp.trends, MinTimeframeAlignment,
                                        TrendStrengthThreshold)
        filtered == filter_signal_by_trend(signal, trend_alignment)
        polledL == [NoLocals EXCEPT !.polled = Len(active_strategies)]
        votedL == [polledL EXCEPT !.buy_votes = buy_votes,
                                  !.sell_votes = sell_votes,
                                  !.total_votes = total_votes]
        decidedL == [votedL EXCEPT !.direction = direction,
                                   !.agreement = agreement,
                                   !.matching = Len(strategies_used),
                                   !.confidence = confidence]
    IN  IF use_regime /\ active_strategies = <<>>
        THEN [signal |-> NoneV, locals |-> [polledL EXCEPT !.stage = "no_strategies"]]
        ELSE IF total_votes = 0
        THEN [signal |-> NoneV, locals |-> [votedL EXCEPT !.stage = "no_votes"]]
        ELSE IF direction = "none"
        THEN [signal |-> NoneV, locals |-> [votedL EXCEPT !.stage = "no_direction"]]
        ELSE IF FLt(confidence, min_conf)
        THEN [signal |-> NoneV, locals |-> [decidedL EXCEPT !.stage = "low_confidence"]]
        ELSE IF use_trend /\ filtered = NoneV
        THEN [signal |-> NoneV, locals |-> [decidedL EXCEPT !.stage = "trend_rejected"]]
        ELSE [signal |-> IF use_trend THEN filtered ELSE signal,
              locals |-> [decidedL EXCEPT !.stage = "emitted"]]

(***************************************************************************)
(* Inputs of the ensemble specification                                    *)
(***************************************************************************)
\* the ways a polled strategy gives no vote, met in turn by the non-voters
NoVoteKinds ==
    <<"flat", "error", "nan_entry", "empty">>

EnsemblePrice ==
    FInt(100)

LongPoll ==
    [kind |-> "long", entry_price |-> FInt(100), stop_loss |-> FInt(98),
     take_profit |-> FInt(104)]

ShortPoll ==
    [kind |-> "short", entry_price |-> FInt(100), stop_loss |-> FInt(102),
     take_profit |-> FInt(96)]

NoVotePoll(k) ==
    [kind |-> NoVoteKinds[((k - 1) % Len(NoVoteKinds)) + 1],
     entry_price |-> NoneV, stop_loss |-> NoneV, take_profit |-> NoneV]

\* nb buy voters, ns sell voters and nn non-voters of type bollinger_breakout,
\* then nx buy voters of type ema_cross
BuildStrategies(nb, ns, nn, nx) ==
    [i \in 1..(nb + ns + nn + nx) |->
        [id |-> i,
         type |-> IF i <= nb + ns + nn THEN <<"bollinger", "breakout">>
                  ELSE <<"ema", "cross">>]]

BuildPolls(nb, ns, nn, nx) ==
    [i \in 1..(nb + ns + nn + nx) |->
        IF i <= nb THEN LongPoll
        ELSE IF i <= nb + ns THEN ShortPoll
        ELSE IF i <= nb + ns + nn THEN NoVotePoll(i - nb - ns)
        ELSE LongPoll]

Trend(dir, strength) ==
    [direction |-> dir, strength |-> strength]

ShortDataTrends ==
    "1h" :> Trend("neutral", 30)

TrendCases ==
    { ("1h" :> Trend("bullish", 100)) @@ ("4h" :> Trend("bullish", 100))
          @@ ("1d" :> Trend("bullish", 100)),
      ("1h" :> Trend("bearish", 100)) @@ ("4h" :> Trend("bearish", 100))
          @@ ("1d" :> Trend("bearish", 100)),
      ("1h" :> Trend("neutral", 30)) @@ ("4h" :> Trend("bullish", 70))
          @@ ("1d" :> Trend("bullish", 100)),
      ("1h" :> Trend("bullish", 100)) @@ ("4h" :> Trend("bullish", 100))
          @@ ("1d" :> Trend("neutral", 0)),
      ShortDataTrends }

MinAgreementChoices ==
    {Frac(0, 1), Frac(1, 2), Frac(4, 5), Frac(1, 1)}

MinConfidenceChoices ==
    {FInt(0), FInt(80), FInt(95)}

EnsembleRegimes ==
    {"ranging", "trending_up"}

EnsIdle ==
    /\ strategies = <<>>
    /\ min_agreement = Frac(4, 5)
    /\ min_confidence = FInt(80)
    /\ use_regime_filter = TRUE
    /\ use_trend_filter = TRUE
    /\ ens_in = NoneV
    /\ ens_pc = "idle"
    /\ ens_locals = NoLocals
    /\ ens_signal = NoneV

EnsInit ==
    /\ \E nb \in 0..MaxStrategies, ns \in 0..MaxStrategies,
          nn \in 0..MaxStrategies, nx \in 0..1 :
          /\ nb + ns + nn + nx <= MaxStrategies
          /\ strategies = BuildStrategies(nb, ns, nn, nx)
          /\ \E regime \in EnsembleRegimes, trends \in TrendCases :
                /\ use_trend_filter \in BOOLEAN
                /\ ~use_trend_filter => trends = ShortDataTrends
                /\ ens_in = [regime |-> regime,
                             polls |-> BuildPolls(nb, ns, nn, nx),
                             trends |-> trends,
                             current_price |-> EnsemblePrice,
                             pair |-> <<"EUR", "/", "USD">>]
    /\ min_agreement \in MinAgreementChoices
    /\ min_confidence \in MinConfidenceChoices
    /\ use_regime_filter \in BOOLEAN
    /\ ens_pc = "ready"
    /\ ens_locals = NoLocals
    /\ ens_signal = NoneV

\* one call of EnsembleSignalGenerator.generate_signal
GenerateSignal ==
    /\ ens_pc = "ready"
    /\ LET r == generate_signal(strategies, min_agreement, min_confidence,
                                use_regime_filter, use_trend_filter, ens_in)
       IN  /\ ens_signal' = r.signal
           /\ ens_locals' = r.locals
    /\ ens_pc' = "done"
    /\ UNCHANGED <<strategies, min_agreement, min_confidence,
                   use_regime_filter, use_trend_filter, ens_in>>

EnsNext ==
    GenerateSignal

(***************************************************************************)
(* Correlation Manager.  An instrument name is the sequence of its tokens  *)
(* (three-letter codes and separators): 'EURUSD' is <<"EUR", "USD">>,      *)
(* 'EUR/USD' is <<"EUR", "/", "USD">>; name.startswith(code) is "the first *)
(* token is code".  Correlations are in hundredths.                        *)
(***************************************************************************)
Currencies ==
    {"EUR", "GBP", "USD", "JPY", "AUD", "CAD", "CHF", "NZD"}

CURRENCY_CORRELATIONS ==
    (<<<<"EUR", "USD">>, <<"GBP", "USD">>>> :> 75) @@
    (<<<<"EUR", "USD">>, <<"AUD", "USD">>>> :> 60) @@
    (<<<<"EUR", "USD">>, <<"USD", "JPY">>>> :> -70) @@
    (<<<<"GBP", "USD">>, <<"AUD", "USD">>>> :> 65) @@
    (<<<<"GBP", "USD">>, <<"USD", "JPY">>>> :> -60) @@
    (<<<<"AUD", "USD">>, <<"USD", "JPY">>>> :> -55) @@
    (<<<<"GBP", "USD">>, <<"EUR", "GBP">>>> :> -85) @@
    (<<<<"EUR", "USD">>, <<"EUR", "GBP">>>> :> 90)

\* CorrelationManager.__init__ defaults
CorrelationThreshold ==
    70

MaxPositionsPerCurrency ==
    1

\* extract_currencies: <<base, quote>>, "" standing for None
extract_currencies(pair) ==
    IF pair # <<>> /\ pair[1] \in Currencies
    THEN <<pair[1],
           IF Len(pair) >= 2 /\ pair[2] \in Currencies THEN pair[2] ELSE "">>
    ELSE <<"", "">>

estimate_correlation_by_currency(pair1, pair2) ==
    LET c1 == extract_currencies(pair1)
        c2 == extract_currencies(pair2)
        base1 == c1[1]
        quote1 == c1[2]
        base2 == c2[1]
        quote2 == c2[2]
    IN  IF base1 = "" \/ quote1 = "" \/ base2 = "" \/ quote2 = "" THEN 0
        ELSE IF quote1 = quote2 THEN (IF base1 = base2 THEN 100 ELSE 60)
        ELSE IF base1 = base2 THEN -70
        ELSE IF base1 = quote2 \/ base2 = quote1 THEN -65
        ELSE 20

\* calculate_correlation without price data (data1, data2 are None)
calculate_correlation(pair1, pair2) ==
    IF <<pair1, pair2>> \in DOMAIN CURRENCY_CORRELATIONS
    THEN CURRENCY_CORRELATIONS[<<pair1, pair2>>]
    ELSE IF <<pair2, pair1>> \in DOMAIN CURRENCY_CORRELATIONS
    THEN CURRENCY_CORRELATIONS[<<pair2, pair1>>]
    ELSE estimate_correlation_by_currency(pair1, pair2)

\* _get_base_currency: the currency being bought, "" standing for None
get_base_currency(pair, direction) ==
    IF pair # <<>> /\ pair[1] \in Currencies
    THEN IF direction = "buy" THEN pair[1]
         ELSE IF Len(pair) >= 2 /\ pair[2] \in Currencies THEN pair[2]
         ELSE ""
    ELSE ""

\* the keys of _count_currency_exposures' dictionary in insertion order
RECURSIVE ExposureKeys(_, _)
ExposureKeys(positions, seen) ==
    IF positions = <<>> THEN seen
    ELSE LET c == get_base_currency(Head(positions).pair, Head(positions).direction)
             InSeen(x) == x = c
         IN  IF c = "" \/ SelectSeq(seen, InSeen) # <<>>
             THEN ExposureKeys(Tail(positions), seen)
             ELSE ExposureKeys(Tail(positions), Append(seen, c))

count_currency_exposures(positions) ==
    LET keys == ExposureKeys(positions, <<>>)
        Count(c) == LET Buys(p) == get_base_currency(p.pair, p.direction) = c
                    IN  Len(SelectSeq(positions, Buys))
    IN  [i \in 1..Len(keys) |-> [currency |-> keys[i], count |-> Count(keys[i])]]

\* a human-readable message: its fixed text and the values formatted into it
Reason(text, num, list) ==
    [text |-> text, num |-> num, list |-> list]

RECURSIVE MaxOfSeq(_)
MaxOfSeq(s) ==
    IF s = <<>> THEN 0 ELSE MaxInt(Head(s), MaxOfSeq(Tail(s)))

check_correlation_conflict(new_pair, new_direction, existing_positions, correlation_threshold, max_positions_per_currency) ==
    LET Conflicts(position) ==
            /\ position.pair # new_pair
            /\ Abs(calculate_correlation(new_pair, position.pair)) >= correlation_threshold
            /\ new_direction = position.direction
            /\ get_base_currency(new_pair, new_direction)
                   = get_base_currency(position.pair, position.direction)
        conflicting_pairs == SelectSeq(existing_positions, Conflicts)
        CorrOf(position) == Abs(calculate_correlation(new_pair, position.pair))
        max_correlation == MaxOfSeq(MapField(conflicting_pairs, CorrOf))
        currency_exposures ==
            count_currency_exposures(
                Append(existing_positions,
                       [pair |-> new_pair, direction |-> new_direction]))
        Exceeds(e) == e.count > max_positions_per_currency
        CurrencyOf(e) == e.currency
        exceeded_limits == MapField(SelectSeq(currency_exposures, Exceeds), CurrencyOf)
    IN  IF existing_positions = <<>>
        THEN [has_conflict |-> FALSE, conflicting_pairs |-> <<>>,
              reason |-> NoneV]
        ELSE [has_conflict |-> conflicting_pairs # <<>> \/ exceeded_limits # <<>>,
              conflicting_pairs |-> conflicting_pairs,
              exceeded_currency_limits |-> exceeded_limits,
              max_correlation |-> max_correlation,
              reason |->
                  IF conflicting_pairs # <<>>
                  THEN Reason("High correlation with existing positions",
                              max_correlation, <<>>)
                  ELSE IF exceeded_limits # <<>>
                  THEN Reason("Currency exposure limit exceeded", 0, exceeded_limits)
                  ELSE NoneV]

(***************************************************************************)
(* Economic Calendar.  `now' is datetime.utcnow() as [weekday, day,        *)
(* minutes]: weekday 0..6 from Monday, day of the month, minutes since     *)
(* midnight.                                                               *)
(***************************************************************************)
BufferMinutes ==
    30

\* time(h, m) as minutes since midnight
TimeOf(h, m) ==
    h * 60 + m

high_impact_times ==
    [wd \in 0..6 |->
        CASE wd = 1 -> <<TimeOf(13, 30)>>
          [] wd = 2 -> <<TimeOf(12, 30), TimeOf(18, 0)>>
          [] wd = 3 -> <<TimeOf(12, 30)>>
          [] wd = 4 -> <<TimeOf(12, 30), TimeOf(13, 30)>>
          [] OTHER -> <<>>]

central_bank_times ==
    <<TimeOf(12, 0), TimeOf(18, 0), TimeOf(19, 0)>>

is_within_buffer(current_minutes, event_minutes) ==
    Abs(current_minutes - event_minutes) <= BufferMinutes

is_nfp_friday(dt) ==
    IF dt.weekday # 4 THEN FALSE
    ELSE LET first_day_weekday == (dt.weekday - (dt.day - 1)) % 7
             days_until_friday == (4 - first_day_weekday) % 7
         IN  dt.day = 1 + days_until_friday

is_trading_allowed(now) ==
    LET Near(t) == is_within_buffer(now.minutes, t)
        news == SelectSeq(high_impact_times[now.weekday], Near)
        banks == SelectSeq(central_bank_times, Near)
    IN  IF news # <<>>
        THEN <<FALSE, Reason("High-impact news at", Head(news), <<>>)>>
        ELSE IF banks # <<>>
        THEN <<FALSE, Reason("Central bank announcement at", Head(banks), <<>>)>>
        ELSE IF is_nfp_friday(now) /\ Near(TimeOf(12, 30))
        THEN <<FALSE, Reason("US Non-Farm Payrolls release time", 0, <<>>)>>
        ELSE <<TRUE, NoneV>>

(***************************************************************************)
(* Risk Gate.  `data' is the price frame: [has_volatility, rows], each row *)
(* [hour, high, low, close, volatility] with hour the hour of its index    *)
(* timestamp; a NaN volatility is the value NaN.                           *)
(***************************************************************************)
MinLiquidityHours ==
    8..20

\* DataFrame.tail(n)
TailRows(s, n) ==
    IF Len(s) <= n THEN s ELSE SubSeq(s, Len(s) - n + 1, Len(s))

RECURSIVE InsertSorted(_, _)
InsertSorted(x, s) ==
    IF s = <<>> THEN <<x>>
    ELSE IF x <= Head(s) THEN <<x>> \o s
    ELSE <<Head(s)>> \o InsertSorted(x, Tail(s))

RECURSIVE SortAscending(_)
SortAscending(s) ==
    IF s = <<>> THEN <<>> ELSE InsertSorted(Head(s), SortAscending(Tail(s)))

\* np.percentile(values, q) by linear interpolation; NaN if any value is NaN
Percentile(values, q) ==
    LET IsNaN(v) == v = NaN
        sorted == SortAscending(values)
        pos == q * (Len(values) - 1)
        lo == pos \div 100
        hi == MinInt(lo + 1, Len(values) - 1)
    IN  IF SelectSeq(values, IsNaN) # <<>> THEN NoneV
        ELSE Frac(100 * sorted[lo + 1]
                    + (pos % 100) * (sorted[hi + 1] - sorted[lo + 1]), 100)

\* _check_volatility raises on a frame that has the column but no row
check_volatility_raises(data) ==
    data.has_volatility /\ data.rows = <<>>

check_volatility(data) ==
    IF ~data.has_volatility THEN TRUE
    ELSE LET VolOf(r) == r.volatility
             recent_volatility == MapField(TailRows(data.rows, 100), VolOf)
             volatility_percentile == Percentile(recent_volatility, 95)
             current_volatility == recent_volatility[Len(recent_volatility)]
         IN  IF volatility_percentile # NoneV /\ current_volatility # NaN
                /\ FGt(FInt(current_volatility), volatility_percentile)
             THEN FALSE
             ELSE TRUE

check_liquidity(data, min_liquidity_hours) ==
    IF data.rows = <<>> THEN TRUE
    ELSE data.rows[Len(data.rows)].hour \in min_liquidity_hours

RECURSIVE MinOfSeq(_)
MinOfSeq(s) ==
    IF Len(s) = 1 THEN Head(s) ELSE MinInt(Head(s), MinOfSeq(Tail(s)))

check_price_levels(signal, data) ==
    IF data.rows = <<>> THEN TRUE
    ELSE LET HighOf(r) == r.high
             LowOf(r) == r.low
             current_price == FInt(data.rows[Len(data.rows)].close)
             range_high == MaxOfSeq(MapField(TailRows(data.rows, 50), HighOf))
             range_low == MinOfSeq(MapField(TailRows(data.rows, 50), LowOf))
             range_size == FInt(range_high - range_low)
             stop_loss == signal.stop_loss
             take_profit == signal.take_profit
         IN  IF Truthy(stop_loss) /\ Truthy(take_profit)
             THEN ~(\/ FGt(FAbs(FSub(current_price, stop_loss)), FMul(range_size, FInt(3)))
                    \/ FGt(FAbs(FSub(current_price, take_profit)), FMul(range_size, FInt(3))))
             ELSE TRUE

\* check_signal_safety: [kind, is_safe, reason]; kind "raised" when the call
\* ends in an exception instead of returning (is_safe, reason)
check_signal_safety(signal, data, existing_positions, now, min_liquidity_hours, use_news, use_correlation) ==
    LET news == is_trading_allowed(now)
        conflict == check_correlation_conflict(signal.pair, signal.direction,
                        existing_positions, CorrelationThreshold,
                        MaxPositionsPerCurrency)
    IN  IF check_volatility_raises(data)
        THEN [kind |-> "raised", is_safe |-> FALSE, reason |-> NoneV]
        ELSE IF ~check_volatility(data)
        THEN [kind |-> "returned", is_safe |-> FALSE,
              reason |-> Reason("Extreme volatility detected", 0, <<>>)]
        ELSE IF ~check_liquidity(data, min_liquidity_hours)
        THEN [kind |-> "returned", is_safe |-> FALSE,
              reason |-> Reason("Low liquidity session", 0, <<>>)]
        ELSE IF ~check_price_levels(signal, data)
        THEN [kind |-> "returned", is_safe |-> FALSE,
              reason |-> Reason("Price levels outside acceptable range", 0, <<>>)]
        ELSE IF use_news /\ ~news[1]
        THEN [kind |-> "returned", is_safe |-> FALSE, reason |-> news[2]]
        ELSE IF use_correlation /\ conflict.has_conflict
        THEN [kind |-> "returned", is_safe |-> FALSE, reason |-> conflict.reason]
        ELSE [kind |-> "returned", is_safe |-> TRUE, reason |-> NoneV]

(***************************************************************************)
(* Inputs of the risk gate specification                                   *)
(***************************************************************************)
MaxRiskBars ==
    2

MaxPositions ==
    2

Row(hour, volatility) ==
    [hour |-> hour, high |-> 101, low |-> 99, close |-> 100,
     volatility |-> volatility]

RiskRowChoices ==
    {Row(10, 5), Row(10, 9), Row(3, 5), Row(10, NaN)}

SeqsUpTo(S, n) ==
    UNION {[1..k -> S] : k \in 0..n}

RiskSignal(pair, direction, stop_loss, take_profit) ==
    [pair |-> pair, direction |-> direction,
     stop_loss |-> stop_loss, take_profit |-> take_profit]

RiskSignalChoices ==
    {RiskSignal(<<"EUR", "USD">>, "buy", FInt(98), FInt(104)),
     RiskSignal(<<"EUR", "USD">>, "sell", FInt(102), FInt(96)),
     RiskSignal(<<"EUR", "/", "USD">>, "buy", FInt(98), FInt(104)),
     RiskSignal(<<"EUR", "USD">>, "buy", FInt(50), FInt(104)),
     RiskSignal(<<"EUR", "USD">>, "buy", NoneV, NoneV)}

Position(pair, direction) ==
    [pair |-> pair, direction |-> direction]

PositionChoices ==
    {Position(<<"EUR", "GBP">>, "buy"), Position(<<"GBP", "USD">>, "buy"),
     Position(<<"GBP", "USD">>, "sell")}

Clock(weekday, day, minutes) ==
    [weekday |-> weekday, day |-> day, minutes |-> minutes]

ClockChoices ==
    {Clock(0, 2, TimeOf(10, 0)), Clock(2, 4, TimeOf(12, 45)),
     Clock(0, 2, TimeOf(19, 10)), Clock(4, 6, TimeOf(12, 30)),
     Clock(4, 13, TimeOf(14, 1))}

NoRiskOut ==
    [kind |-> "none", is_safe |-> FALSE, reason |-> NoneV]

\* RiskManager() as TradingBot constructs it, no call made
RiskIdle ==
    /\ use_news_filter = TRUE
    /\ use_correlation_filter = TRUE
    /\ risk_in = NoneV
    /\ risk_pc = "idle"
    /\ risk_out = NoRiskOut

RiskInit ==
    /\ use_news_filter \in BOOLEAN
    /\ use_correlation_filter \in BOOLEAN
    /\ \E signal \in RiskSignalChoices, has_volatility \in BOOLEAN,
          rows \in SeqsUpTo(RiskRowChoices, MaxRiskBars),
          existing_positions \in SeqsUpTo(PositionChoices, MaxPositions),
          now \in ClockChoices :
          risk_in = [signal |-> signal,
                     data |-> [has_volatility |-> has_volatility, rows |-> rows],
                     existing_positions |-> existing_positions,
                     now |-> now]
    /\ risk_pc = "ready"
    /\ risk_out = NoRiskOut

\* one call of RiskManager.check_signal_safety
CheckSignalSafety ==
    /\ risk_pc = "ready"
    /\ risk_out' = check_signal_safety(risk_in.signal, risk_in.data,
                                       risk_in.existing_positions, risk_in.now,
                                       MinLiquidityHours, use_news_filter,
                                       use_correlation_filter)
    /\ risk_pc' = "done"
    /\ UNCHANGED <<use_news_filter, use_correlation_filter, risk_in>>

RiskNext ==
    CheckSignalSafety

(***************************************************************************)
(* Telegram front-end.  market[pair] is what the data service and the      *)
(* signal pipeline give for an instrument now: fetch "ok" (load_data       *)
(* returns `frame'), "none" (it returns None) or "error" (it raises), and  *)
(* view, what the ensemble's sub-computations see in that frame (regime,   *)
(* per-strategy polls, per-timeframe trends).                              *)
(***************************************************************************)
\* DEFAULT_PAIRS default 'EUR/USD,GBP/USD,XAU/USD'
default_pairs ==
    <<<<"EUR", "/", "USD">>, <<"GBP", "/", "USD">>, <<"XAU", "/", "USD">>>>

\* signal_command's normalisation of the pair argument ('EURUSD' -> 'EUR/USD')
normalize_pair(arg) ==
    IF (\A i \in 1..Len(arg) : arg[i] # "/") /\ Len(arg) = 2
    THEN <<arg[1], "/", arg[2]>>
    ELSE arg

Feed(fetch, frame, view) ==
    [fetch |-> fetch, frame |-> frame, view |-> view]

\* DataFetcher.load_data: None for a pair it does not know
load_data(pair) ==
    IF pair \in DOMAIN market THEN market[pair]
    ELSE Feed("none", NoneV, NoneV)

\* self.ensemble.generate_signal(data, current_price, pair)
bot_generate_signal(pair, feed) ==
    generate_signal(strategies, min_agreement, min_confidence,
                    use_regime_filter, use_trend_filter,
                    [regime |-> feed.view.regime,
                     polls |-> feed.view.polls,
                     trends |-> feed.view.trends,
                     current_price |-> FInt(feed.frame.rows[Len(feed.frame.rows)].close),
                     pair |-> pair]).signal

\* self.risk_manager.check_signal_safety(signal, data, [])
bot_check_signal_safety(signal, feed) ==
    check_signal_safety(signal, feed.frame, <<>>, bot_now, MinLiquidityHours,
                        use_news_filter, use_correlation_filter)

Message(via, kind, pair, signal, reason) ==
    [via |-> via, kind |-> kind, pair |-> pair, signal |-> signal,
     reason |-> reason]

StatusLine(kind, pair, signal) ==
    [kind |-> kind, pair |-> pair, signal |-> signal]

StatusMessage(via, lines, active_signals) ==
    [via |-> via, kind |-> "status", lines |-> lines,
     active_signals |-> active_signals]

\* what a handler run did: messages sent, signals saved
Outcome(sent, saved) ==
    [sent |-> sent, saved |-> saved]

\* the handlers below take `signals' and `safeties', the answers of the two
\* calls above for every instrument the data service has a frame for
bot_signals ==
    [pair \in DOMAIN market |->
        IF market[pair].fetch = "ok" /\ market[pair].frame.rows # <<>>
        THEN bot_generate_signal(pair, market[pair])
        ELSE NoneV]

bot_safeties(signals) ==
    [pair \in DOMAIN market |->
        IF signals[pair] # NoneV
        THEN bot_check_signal_safety(signals[pair], market[pair])
        ELSE NoRiskOut]

signal_command(arg, signals, safeties) ==
    LET via == "signal_command"
        pair == IF arg = NoneV THEN <<"EUR", "/", "USD">> ELSE normalize_pair(arg)
        feed == load_data(pair)
        fetching == Message(via, "fetching", pair, NoneV, NoneV)
    IN  IF ~bot_ensemble_set
        THEN Outcome(<<Message(via, "not_initialized", NoneV, NoneV, NoneV)>>, {})
        ELSE IF feed.fetch = "error"
        THEN Outcome(<<fetching, Message(via, "error", NoneV, NoneV, NoneV)>>, {})
        ELSE IF feed.fetch = "none" \/ feed.frame.rows = <<>>
        THEN Outcome(<<fetching, Message(via, "no_data", pair, NoneV, NoneV)>>, {})
        ELSE IF signals[pair] = NoneV
        THEN Outcome(<<fetching, Message(via, "no_trade", NoneV, NoneV, NoneV)>>, {})
        ELSE IF safeties[pair].kind = "raised"
        THEN Outcome(<<fetching, Message(via, "error", NoneV, NoneV, NoneV)>>, {})
        ELSE IF ~safeties[pair].is_safe
        THEN Outcome(<<fetching, Message(via, "risk_filter", NoneV, NoneV,
                                         safeties[pair].reason)>>, {})
        ELSE Outcome(<<fetching, Message(via, "signal", pair, signals[pair], NoneV)>>,
                     {signals[pair]})

\* one instrument of the status loops: the line it adds, kind "skip" for none
status_line(pair, signals) ==
    LET feed == load_data(pair)
    IN  IF feed.fetch = "error" THEN StatusLine("error", pair, NoneV)
        ELSE IF feed.fetch = "none" \/ feed.frame.rows = <<>>
        THEN StatusLine("skip", pair, NoneV)
        ELSE IF signals[pair] # NoneV THEN StatusLine("signal", pair, signals[pair])
        ELSE StatusLine("monitoring", pair, NoneV)

status_command(signals) ==
    LET via == "status_command"
        Line(pair) == status_line(pair, signals)
        Shown(l) == l.kind # "skip"
        IsSignal(l) == l.kind = "signal"
        lines == SelectSeq(MapField(default_pairs, Line), Shown)
    IN  IF ~bot_ensemble_set
        THEN Outcome(<<Message(via, "not_initialized", NoneV, NoneV, NoneV)>>, {})
        ELSE Outcome(<<Message(via, "fetching", NoneV, NoneV, NoneV),
                       StatusMessage(via, lines, CountSeq(lines, IsSignal))>>, {})

\* one pass of _hourly_status_loop; an instrument whose evaluation raises
\* adds no line
hourly_status_pass(signals) ==
    LET via == "hourly_status"
        Line(pair) == status_line(pair, signals)
        Shown(l) == l.kind # "skip" /\ l.kind # "error"
        IsSignal(l) == l.kind = "signal"
        lines == SelectSeq(MapField(default_pairs, Line), Shown)
    IN  IF ~bot_ensemble_set \/ notification_chat_id = NoneV
        THEN Outcome(<<>>, {})
        ELSE Outcome(<<StatusMessage(via, lines, CountSeq(lines, IsSignal))>>, {})

\* one instrument of _auto_signal_loop: the alert it sends, NoneV for none
auto_signal_alert(pair, signals, safeties) ==
    LET feed == load_data(pair)
    IN  IF feed.fetch = "error" THEN NoneV
        ELSE IF feed.fetch = "none" \/ feed.frame.rows = <<>> THEN NoneV
        ELSE IF signals[pair] = NoneV THEN NoneV
        ELSE IF safeties[pair].kind = "raised" THEN NoneV
        ELSE IF safeties[pair].is_safe
        THEN Message("auto_signal", "signal", pair, signals[pair], NoneV)
        ELSE NoneV

\* one pass of _auto_signal_loop
auto_signal_pass(signals, safeties) ==
    LET Alert(pair) == auto_signal_alert(pair, signals, safeties)
        Sent(m) == m # NoneV
        alerts == SelectSeq(MapField(default_pairs, Alert), Sent)
    IN  IF ~bot_ensemble_set \/ notification_chat_id = NoneV
        THEN Outcome(<<>>, {})
        ELSE Outcome(alerts, {alerts[i].signal : i \in 1..Len(alerts)})

(***************************************************************************)
(* Inputs of the front-end specification                                   *)
(***************************************************************************)
\* the ensemble main.py attaches to the bot
BotStrategies ==
    BuildStrategies(3, 0, 0, 0)

BullishTrends ==
    ("1h" :> Trend("bullish", 100)) @@ ("4h" :> Trend("bullish", 100))
        @@ ("1d" :> Trend("bullish", 100))

ConsensusView ==
    [regime |-> "ranging", polls |-> BuildPolls(3, 0, 0, 0),
     trends |-> BullishTrends]

SplitView ==
    [regime |-> "ranging", polls |-> BuildPolls(1, 1, 1, 0),
     trends |-> BullishTrends]

Frame(rows) ==
    [has_volatility |-> FALSE, rows |-> rows]

FeedChoices ==
    {Feed("none", NoneV, NoneV),
     Feed("error", NoneV, NoneV),
     Feed("ok", Frame(<<>>), ConsensusView),
     Feed("ok", Frame(<<Row(10, 5)>>), ConsensusView),
     Feed("ok", Frame(<<Row(3, 5)>>), ConsensusView),
     Feed("ok", Frame(<<Row(10, 5)>>), SplitView)}

BotClockChoices ==
    {Clock(0, 2, TimeOf(10, 0)), Clock(2, 4, TimeOf(12, 45))}

PairArgChoices ==
    {NoneV, <<"GBP", "USD">>, <<"XAU", "/", "USD">>, <<"BTC", "USD">>}

\* update.effective_chat of the one user talking to the bot
EffectiveChat ==
    [id |-> 1]

BotIdle ==
    /\ bot_ensemble_set = FALSE
    /\ notification_chat_id = NoneV
    /\ market = <<>>
    /\ bot_now = Clock(0, 2, TimeOf(10, 0))
    /\ bot_sent = <<>>
    /\ bot_db = {}

\* TradingBot.__init__, with what the outside world will answer
BotInit ==
    /\ bot_ensemble_set = FALSE
    /\ notification_chat_id = NoneV
    /\ market \in [{default_pairs[i] : i \in 1..Len(default_pairs)} -> FeedChoices]
    /\ bot_now \in BotClockChoices
    /\ bot_sent = <<>>
    /\ bot_db = {}

SetEnsemble ==
    /\ ~bot_ensemble_set
    /\ bot_ensemble_set' = TRUE
    /\ UNCHANGED <<notification_chat_id, market, bot_now, bot_sent, bot_db>>

\* /signal [pair]
SignalCommand ==
    \E arg \in PairArgChoices, signals \in {bot_signals} :
        \E safeties \in {bot_safeties(signals)} :
            \E out \in {signal_command(arg, signals, safeties)} :
                /\ notification_chat_id' =
                       IF notification_chat_id = NoneV THEN EffectiveChat
                       ELSE notification_chat_id
                /\ bot_sent' = out.sent
                /\ bot_db' = bot_db \cup out.saved
                /\ UNCHANGED <<bot_ensemble_set, market, bot_now>>

\* /status
StatusCommand ==
    \E signals \in {bot_signals} :
        /\ bot_sent' = status_command(signals).sent
        /\ UNCHANGED <<bot_ensemble_set, notification_chat_id, market, bot_now, bot_db>>

AutoSignalPass ==
    \E signals \in {bot_signals} :
        \E safeties \in {bot_safeties(signals)} :
            \E out \in {auto_signal_pass(signals, safeties)} :
                /\ bot_sent' = out.sent
                /\ bot_db' = bot_db \cup out.saved
                /\ UNCHANGED <<bot_ensemble_set, notification_chat_id, market, bot_now>>

HourlyStatusPass ==
    \E signals \in {bot_signals} :
        /\ bot_sent' = hourly_status_pass(signals).sent
        /\ UNCHANGED <<bot_ensemble_set, notification_chat_id, market, bot_now, bot_db>>

(***************************************************************************)
(* Backtest Engine: data preparation and signal generation                 *)
(* A DataFrame is [has_volume, rows]; a row holds close, high, low and     *)
(* volume.  Prices and money are exact fractions; a NaN cell is NaNF.  A   *)
(* call that raises yields Raised(exception), a record like the value of   *)
(* a call that returns.                                                    *)
(***************************************************************************)
NaNF ==
    [nan |-> TRUE]

Raised(exception) ==
    [raised |-> exception]

IsRaised(x) ==
    DOMAIN x = {"raised"}

\* the DataFrame a signal generator returns
Signals(rows) ==
    [frame |-> rows]

\* dict.get(key, default)
Get(dict, key, default) ==
    IF key \in DOMAIN dict THEN dict[key] ELSE default

\* a / b for b # 0
FDiv(a, b) ==
    FMul(a, IF b.n < 0 THEN Frac(-b.d, -b.n) ELSE Frac(b.d, b.n))

\* series.rolling(window).mean(): NaN until the window is full or when a
\* cell of the window is NaN
RollingMean(values, window) ==
    [i \in 1..Len(values) |->
        IF i < window \/ \E j \in (i - window + 1)..i : values[j] = NaNF
        THEN NaNF
        ELSE FMean(SubSeq(values, i - window + 1, i))]

\* series.shift(): the previous cell, NaN for the first
Shift(values) ==
    [i \in 1..Len(values) |-> IF i = 1 THEN NaNF ELSE values[i - 1]]

\* close.ewm(span, adjust=False).mean()
RECURSIVE EwmMean(_, _, _)
EwmMean(values, span, i) ==
    LET alpha == Frac(2, span + 1)
    IN  IF i = 1 THEN values[1]
        ELSE FAdd(FMul(alpha, values[i]),
                  FMul(FSub(FInt(1), alpha), EwmMean(values, span, i - 1)))

VolatilityWindow ==
    20

\* BacktestEngine._prepare_data: returns = close.pct_change(), volatility =
\* returns.rolling(20).std(); the standard deviation of a full window is
\* kept as the window it is taken over
prepare_data(data) ==
    LET close == [i \in 1..Len(data.rows) |-> data.rows[i].close]
        returns == [i \in 1..Len(close) |->
                       IF i = 1 THEN NaNF
                       ELSE FSub(FDiv(close[i], close[i - 1]), FInt(1))]
    IN  [has_volume |-> data.has_volume,
         rows |-> [i \in 1..Len(close) |->
                     [close |-> close[i], high |-> data.rows[i].high,
                      low |-> data.rows[i].low, volume |-> data.rows[i].volume,
                      returns |-> returns[i],
                      volatility |->
                          IF i < VolatilityWindow + 1 THEN NaNF
                          ELSE [std_of |-> SubSeq(returns, i - VolatilityWindow + 1, i)]]]]

\* BacktestEngine.__init__: the engine works on its own copy of the data
BacktestEngine(data, slippage, spread) ==
    [data |-> prepare_data(data), slippage |-> slippage, spread |-> spread]

\* 'x' in strategy_type, on '_'-separated tokens
Contains(tokens, sub) ==
    \E i \in 0..(Len(tokens) - Len(sub)) : SubSeq(tokens, i + 1, i + Len(sub)) = sub

StartsWith(tokens, prefix) ==
    Len(tokens) >= Len(prefix) /\ SubSeq(tokens, 1, Len(prefix)) = prefix

\* the if/elif chain of _generate_signals
strategy_family(strategy) ==
    LET Is(x) == Contains(strategy.type, x) \/ StartsWith(strategy.name, x)
    IN  CASE Is(<<"ema", "cross">>) -> "ema"
          [] Is(<<"rsi">>) -> "rsi"
          [] Is(<<"macd">>) -> "macd"
          [] Is(<<"bollinger">>) -> "bollinger"
          [] Is(<<"volume">>) -> "volume"
          [] Is(<<"atr">>) -> "atr"
          [] OTHER -> "simple"

DefaultStopLossPct ==
    Frac(2, 100)

DefaultTakeProfitPct ==
    Frac(4, 100)

\* the signal rows of a frame: signal 0 and NaN entry, stop and target until
\* a strategy fills them
SignalRow(row, signal, entry_price, stop_loss, take_profit) ==
    [close |-> row.close, signal |-> signal, entry_price |-> entry_price, stop_loss |-> stop_loss, take_profit |-> take_profit]

\* entry at the close, stop and target a percentage away on the losing and
\* the winning side
PercentLevels(rows, signal, stop_loss_pct, take_profit_pct) ==
    [i \in 1..Len(rows) |->
        LET close == rows[i].close
        IN  CASE signal[i] = 1 ->
                   SignalRow(rows[i], 1, close,
                             FMul(close, FSub(FInt(1), stop_loss_pct)),
                             FMul(close, FAdd(FInt(1), take_profit_pct)))
              [] signal[i] = -1 ->
                   SignalRow(rows[i], -1, close,
                             FMul(close, FAdd(FInt(1), stop_loss_pct)),
                             FMul(close, FSub(FInt(1), take_profit_pct)))
              [] OTHER -> SignalRow(rows[i], 0, NaNF, NaNF, NaNF)]

\* a comparison with NaN is False
Above(a, b) ==
    a # NaNF /\ b # NaNF /\ FGt(a, b)

Below(a, b) ==
    a # NaNF /\ b # NaNF /\ FLt(a, b)

CloseOf(rows) ==
    [i \in 1..Len(rows) |-> rows[i].close]

\* _apply_ema_strategy: +1 / -1 where the fast average is above / below the
\* slow one, kept only on the rows where that value differs from the row
\* before (the first row has no row before)
apply_ema_strategy(df, strategy) ==
    LET close == CloseOf(df.rows)
        fast_period == Get(strategy.parameters, "fast_ema", 20)
        slow_period == Get(strategy.parameters, "slow_ema", 50)
        raw == [i \in 1..Len(close) |->
                   LET ema_fast == EwmMean(close, fast_period, i)
                       ema_slow == EwmMean(close, slow_period, i)
                   IN  IF FGt(ema_fast, ema_slow) THEN 1
                       ELSE IF FLt(ema_fast, ema_slow) THEN -1 ELSE 0]
        signal == [i \in 1..Len(close) |->
                      IF i > 1 /\ raw[i] # raw[i - 1] THEN raw[i] ELSE 0]
    IN  Signals(PercentLevels(df.rows, signal,
                      Get(strategy.exit_conditions, "stop_loss_pct", DefaultStopLossPct),
                      Get(strategy.exit_conditions, "take_profit_pct", DefaultTakeProfitPct)))

\* _apply_volume_strategy: df['volume'] raises KeyError without the column
apply_volume_strategy(df, strategy) ==
    IF ~df.has_volume THEN Raised("KeyError")
    ELSE
    LET close == CloseOf(df.rows)
        volume == [i \in 1..Len(df.rows) |-> df.rows[i].volume]
        period == Get(strategy.parameters, "volume_period", 20)
        multiplier == Get(strategy.parameters, "volume_multiplier", FInt(2))
        volume_ma == RollingMean(volume, period)
        previous == Shift(close)
        signal == [i \in 1..Len(close) |->
                      LET volume_spike ==
                              volume_ma[i] # NaNF
                              /\ FGt(volume[i], FMul(volume_ma[i], multiplier))
                      IN  IF volume_spike /\ Below(close[i], previous[i]) THEN -1
                          ELSE IF volume_spike /\ Above(close[i], previous[i]) THEN 1
                          ELSE 0]
    IN  Signals(PercentLevels(df.rows, signal,
                      Get(strategy.exit_conditions, "stop_loss_pct", DefaultStopLossPct),
                      Get(strategy.exit_conditions, "take_profit_pct", DefaultTakeProfitPct)))

\* _apply_atr_strategy: the true range is the largest of high - low,
\* |high - previous close| and |low - previous close| (the row maximum skips
\* NaN); a signal needs the close outside close -/+ atr * multiplier
apply_atr_strategy(df, strategy) ==
    LET rows == df.rows
        close == CloseOf(rows)
        previous == Shift(close)
        atr_period == Get(strategy.parameters, "atr_period", 14)
        atr_multiplier == Get(strategy.parameters, "atr_multiplier", FInt(2))
        true_range == [i \in 1..Len(rows) |->
                          LET high_low == FSub(rows[i].high, rows[i].low)
                          IN  IF previous[i] = NaNF THEN high_low
                              ELSE FMax(high_low,
                                        FMax(FAbs(FSub(rows[i].high, previous[i])),
                                             FAbs(FSub(rows[i].low, previous[i]))))]
        atr == RollingMean(true_range, atr_period)
        Band(i) == FMul(atr[i], atr_multiplier)
        signal == [i \in 1..Len(rows) |->
                      IF atr[i] = NaNF THEN 0
                      ELSE IF FLt(close[i], FSub(close[i], Band(i))) THEN -1
                      ELSE IF FGt(close[i], FAdd(close[i], Band(i))) THEN 1
                      ELSE 0]
    IN  Signals([i \in 1..Len(rows) |->
            CASE signal[i] = 1 ->
                   SignalRow(rows[i], 1, close[i], FSub(close[i], Band(i)),
                             FAdd(close[i], FMul(Band(i), FInt(2))))
              [] signal[i] = -1 ->
                   SignalRow(rows[i], -1, close[i], FAdd(close[i], Band(i)),
                             FSub(close[i], FMul(Band(i), FInt(2))))
              [] OTHER -> SignalRow(rows[i], 0, NaNF, NaNF, NaNF)])

SmaShortWindow ==
    10

SmaLongWindow ==
    30

\* _apply_simple_strategy: 10-bar against 30-bar simple moving average
apply_simple_strategy(df, strategy) ==
    LET close == CloseOf(df.rows)
        sma_short == RollingMean(close, SmaShortWindow)
        sma_long == RollingMean(close, SmaLongWindow)
        signal == [i \in 1..Len(close) |->
                      IF Below(sma_short[i], sma_long[i]) THEN -1
                      ELSE IF Above(sma_short[i], sma_long[i]) THEN 1
                      ELSE 0]
    IN  Signals(PercentLevels(df.rows, signal, DefaultStopLossPct, DefaultTakeProfitPct))

\* _generate_signals: works on a copy of the engine's data; the rsi, macd
\* and bollinger branches compute indicators this model does not carry
generate_signals(engine, strategy) ==
    LET df == engine.data
        family == strategy_family(strategy)
    IN  CASE family = "ema" -> apply_ema_strategy(df, strategy)
          [] family = "volume" -> apply_volume_strategy(df, strategy)
          [] family = "atr" -> apply_atr_strategy(df, strategy)
          [] family = "simple" -> apply_simple_strategy(df, strategy)

(***************************************************************************)
(* Backtest Engine: trade execution                                        *)
(***************************************************************************)
\* a variant of calculate_pnl that books every exit at the adjusted price
calculate_pnl_at_exit(position, exit, slippage, spread) ==
    LET cost == FAdd(slippage, spread)
    IN  IF position.direction = "long"
        THEN FSub(FMul(exit, FSub(FInt(1), cost)), position.entry_price)
        ELSE FSub(position.entry_price, FMul(exit, FAdd(FInt(1), cost)))

\* _calculate_pnl: the exit price pays slippage and spread; a long exit at
\* or below the stop books the stop, otherwise one at or above the target
\* books the target (mirrored for a short)
calculate_pnl(position, exit, slippage, spread) ==
    LET cost == FAdd(slippage, spread)
        long == position.direction = "long"
        exit_price == IF long THEN FMul(exit, FSub(FInt(1), cost))
                      ELSE FMul(exit, FAdd(FInt(1), cost))
        stop_loss == position.stop_loss
        take_profit == position.take_profit
        AtOrBelow(a, b) == b # NaNF /\ ~FGt(a, b)
        AtOrAbove(a, b) == b # NaNF /\ ~FLt(a, b)
    IN  IF long
        THEN IF AtOrBelow(exit_price, stop_loss)
             THEN FSub(stop_loss, position.entry_price)
             ELSE IF AtOrAbove(exit_price, take_profit)
             THEN FSub(take_profit, position.entry_price)
             ELSE FSub(exit_price, position.entry_price)
        ELSE IF AtOrAbove(exit_price, stop_loss)
             THEN FSub(position.entry_price, stop_loss)
             ELSE IF AtOrBelow(exit_price, take_profit)
             THEN FSub(position.entry_price, take_profit)
             ELSE FSub(position.entry_price, exit_price)

\* the position dict once exit_price, exit_time, pnl and pnl_pct are set
ClosedTrade(position, exit_price, exit_time, slippage, spread) ==
    LET pnl == calculate_pnl(position, exit_price, slippage, spread)
    IN  [entry_time |-> position.entry_time, entry_price |-> position.entry_price,
         direction |-> position.direction, stop_loss |-> position.stop_loss,
         take_profit |-> position.take_profit, strategy_id |-> position.strategy_id,
         exit_price |-> exit_price, exit_time |-> exit_time, pnl |-> pnl,
         pnl_pct |-> FMul(FDiv(pnl, position.entry_price), FInt(100))]

\* the position opened on a signal row: the entry pays slippage and spread
OpenPosition(row, idx, strategy, slippage, spread) ==
    LET cost == FAdd(slippage, spread)
        direction == IF row.signal = 1 THEN "long" ELSE "short"
    IN  [entry_time |-> idx,
         entry_price |-> IF direction = "long"
                         THEN FMul(row.entry_price, FAdd(FInt(1), cost))
                         ELSE FMul(row.entry_price, FSub(FInt(1), cost)),
         direction |-> direction, stop_loss |-> row.stop_loss,
         take_profit |-> row.take_profit, strategy_id |-> strategy.id]

\* a variant of execute_row that opens a position only when none was held
\* before the row
execute_row_flat_only(state, row, idx, strategy, slippage, spread) ==
    IF row.entry_price = NaNF \/ row.signal = 0 THEN state
    ELSE
    LET position == state.position
        reversed == /\ position # NoneV
                    /\ \/ position.direction = "long" /\ row.signal = -1
                       \/ position.direction = "short" /\ row.signal = 1
        trades == IF reversed
                  THEN Append(state.trades,
                              ClosedTrade(position, row.close, idx, slippage, spread))
                  ELSE state.trades
    IN  [trades |-> trades,
         position |-> IF position = NoneV
                      THEN OpenPosition(row, idx, strategy, slippage, spread)
                      ELSE IF reversed THEN NoneV ELSE position]

\* one pass of the loop over signals.iterrows()
execute_row(state, row, idx, strategy, slippage, spread) ==
    IF row.entry_price = NaNF \/ row.signal = 0 THEN state
    ELSE
    LET position == state.position
        reversed == /\ position # NoneV
                    /\ \/ position.direction = "long" /\ row.signal = -1
                       \/ position.direction = "short" /\ row.signal = 1
        trades == IF reversed
                  THEN Append(state.trades,
                              ClosedTrade(position, row.close, idx, slippage, spread))
                  ELSE state.trades
        flat == position = NoneV \/ reversed
    IN  [trades |-> trades,
         position |-> IF flat THEN OpenPosition(row, idx, strategy, slippage, spread)
                      ELSE position]

RECURSIVE ExecuteRows(_, _, _, _, _, _)
ExecuteRows(signals, n, state, strategy, slippage, spread) ==
    IF n = 0 THEN state
    ELSE execute_row(ExecuteRows(signals, n - 1, state, strategy, slippage, spread),
                     signals[n], n, strategy, slippage, spread)

\* a variant of new_trade_list that goes on from the list of the last run
new_trade_list_kept(scratch) ==
    scratch

\* trades = []: every run starts its own list, whatever the last run left
new_trade_list(scratch) ==
    <<>>

\* _execute_trades: a position still open after the last row is closed at
\* the last close
execute_trades(signals, strategy, slippage, spread, scratch) ==
    LET start == [trades |-> new_trade_list(scratch), position |-> NoneV]
        final == ExecuteRows(signals, Len(signals), start, strategy, slippage, spread)
    IN  IF final.position # NoneV
        THEN Append(final.trades,
                    ClosedTrade(final.position, signals[Len(signals)].close,
                                Len(signals), slippage, spread))
        ELSE final.trades

(***************************************************************************)
(* Backtest Engine: performance metrics                                    *)
(* A Sharpe ratio is [sign, square], the number sign * sqrt(252 * square),  *)
(* square being (mean / std)^2.  A drawdown over a zero running peak is    *)
(* [over_epsilon |-> x], the number x / 1e-10; over any other peak the     *)
(* 1e-10 of the denominator is dropped.  A confidence score is             *)
(* [rational, root], the number rational + 0.25 * 10 * sqrt(252 * root).   *)
(***************************************************************************)
Sharpe(sign, square) ==
    [sign |-> sign, square |-> square]

Score(rational, root) ==
    [rational |-> rational, root |-> root]

BacktestResult(strategy, win_rate, total_trades, winning_trades, losing_trades, max_drawdown, sharpe_ratio, risk_reward_ratio, total_return, average_win, average_loss, profit_factor, confidence_score) ==
    [strategy_id |-> strategy.id, strategy_name |-> strategy.name,
     win_rate |-> win_rate, total_trades |-> total_trades,
     winning_trades |-> winning_trades, losing_trades |-> losing_trades,
     max_drawdown |-> max_drawdown, sharpe_ratio |-> sharpe_ratio,
     risk_reward_ratio |-> risk_reward_ratio, total_return |-> total_return,
     average_win |-> average_win, average_loss |-> average_loss,
     profit_factor |-> profit_factor, confidence_score |-> confidence_score]

\* a variant of empty_result that reports no drawdown
empty_result_flat(strategy) ==
    BacktestResult(strategy, FInt(0), 0, 0, 0, FInt(0), Sharpe(0, FInt(0)), FInt(0), FInt(-1), FInt(0), FInt(0), FInt(0), Score(FInt(0), FInt(0)))

\* the result _calculate_metrics returns for an empty trade list
empty_result(strategy) ==
    BacktestResult(strategy, FInt(0), 0, 0, 0, FInt(1), Sharpe(0, FInt(0)), FInt(0), FInt(-1), FInt(0), FInt(0), FInt(0), Score(FInt(0), FInt(0)))

\* the result backtest_strategy returns when the run raised
error_result(strategy) ==
    BacktestResult(strategy, FInt(0), 0, 0, 0, FInt(1), Sharpe(0, FInt(0)), FInt(0), FInt(-1), FInt(0), FInt(0), FInt(0), Score(FInt(0), FInt(0)))

\* Python's int / int
PyDiv(a, b) ==
    IF b = 0 THEN Raised("ZeroDivisionError") ELSE FNorm(Frac(a, b))

\* np.cumsum
CumSum(values) ==
    [i \in 1..Len(values) |-> FSumSeq(SubSeq(values, 1, i))]

RECURSIVE FMaxOfSeq(_)
FMaxOfSeq(s) ==
    IF Len(s) = 1 THEN s[1] ELSE FMax(s[1], FMaxOfSeq(Tail(s)))

\* np.maximum.accumulate
RunningMax(values) ==
    [i \in 1..Len(values) |-> FMaxOfSeq(SubSeq(values, 1, i))]

\* (cumulative - running_max) / (running_max + 1e-10), point by point
drawdown_series(pnls) ==
    LET cumulative_returns == CumSum(pnls)
        running_max == RunningMax(cumulative_returns)
    IN  [i \in 1..Len(pnls) |->
            LET below == FSub(cumulative_returns[i], running_max[i])
            IN  IF below.n = 0 THEN FInt(0)
                ELSE IF running_max[i].n = 0 THEN [over_epsilon |-> below]
                ELSE FDiv(below, running_max[i])]

IsOverEpsilon(x) ==
    "over_epsilon" \in DOMAIN x

\* the order of drawdown values: a (negative) amount over 1e-10 lies below
\* every ratio of amounts
DrawdownLess(a, b) ==
    IF IsOverEpsilon(a)
    THEN IF IsOverEpsilon(b) THEN FLt(a.over_epsilon, b.over_epsilon) ELSE TRUE
    ELSE IF IsOverEpsilon(b) THEN FALSE ELSE FLt(a, b)

\* np.min
RECURSIVE DrawdownMin(_)
DrawdownMin(s) ==
    IF Len(s) = 1 THEN s[1]
    ELSE LET rest == DrawdownMin(Tail(s))
         IN  IF DrawdownLess(rest, s[1]) THEN rest ELSE s[1]

DrawdownAbs(x) ==
    IF IsOverEpsilon(x) THEN [over_epsilon |-> FAbs(x.over_epsilon)] ELSE FAbs(x)

AnnualisationFactor ==
    252

\* mean / std * sqrt(252) when there are at least two returns and they are
\* not all equal (np.std is the population deviation), else 0.0
sharpe_of(pnls) ==
    LET mean == FMean(pnls)
        squares == [i \in 1..Len(pnls) |-> FMul(pnls[i], pnls[i])]
        variance == FSub(FMean(squares), FMul(mean, mean))
    IN  IF Len(pnls) > 1 /\ variance.n > 0 /\ mean.n # 0
        THEN Sharpe(IF mean.n > 0 THEN 1 ELSE -1, FDiv(FMul(mean, mean), variance))
        ELSE Sharpe(0, FInt(0))

\* _calculate_confidence_score: five component scores, weighted 0.3, 0.25,
\* 0.2, 0.15 and 0.1; the Sharpe score is 0 for a Sharpe ratio of 0 or
\* less, 100 for one of 10 or more (252 * square >= 100), and is kept as
\* the root part in between
calculate_confidence_score(win_rate, sharpe, drawdown, profit_factor, total_trades) ==
    LET hundred == FInt(100)
        win_rate_score == FMin(FMul(win_rate, hundred), hundred)
        sharpe_capped == sharpe.sign > 0 /\ FGe(sharpe.square, Frac(100, AnnualisationFactor))
        sharpe_root == IF sharpe.sign > 0 /\ ~sharpe_capped
                       THEN sharpe.square ELSE FInt(0)
        sharpe_score == IF sharpe_capped THEN hundred ELSE FInt(0)
        drawdown_score == IF IsOverEpsilon(drawdown) THEN FInt(0)
                          ELSE FMax(FSub(hundred, FMul(drawdown, FInt(500))), FInt(0))
        profit_factor_score == FMin(FMul(profit_factor, FInt(25)), hundred)
        trade_count_score == FMin(Frac(total_trades, 10), hundred)
        confidence ==
            FAdd(FMul(win_rate_score, Frac(3, 10)),
            FAdd(FMul(sharpe_score, Frac(25, 100)),
            FAdd(FMul(drawdown_score, Frac(2, 10)),
            FAdd(FMul(profit_factor_score, Frac(15, 100)),
                 FMul(trade_count_score, Frac(1, 10))))))
    IN  \* max(0, min(confidence, 100)); with a root part the rational part
        \* is at most 75 and the root below 25
        Score(FMax(FInt(0), FMin(confidence, hundred)), sharpe_root)

PnlOf(trades) ==
    [i \in 1..Len(trades) |-> trades[i].pnl]

\* a variant of is_winning_pnl that counts a break-even trade as a win
is_winning_pnl_or_flat(pnl) ==
    pnl.n >= 0

\* t['pnl'] > 0
is_winning_pnl(pnl) ==
    pnl.n > 0

\* t['pnl'] < 0
is_losing_pnl(pnl) ==
    pnl.n < 0

\* _calculate_metrics
calculate_metrics(strategy, trades) ==
    IF trades = <<>> THEN empty_result(strategy)
    ELSE
    LET pnls == PnlOf(trades)
        total_trades == Len(trades)
        winning_trades == SelectSeq(pnls, is_winning_pnl)
        losing_trades == SelectSeq(pnls, is_losing_pnl)
        win_rate == IF total_trades > 0 THEN PyDiv(Len(winning_trades), total_trades)
                    ELSE FInt(0)
        total_return == FSumSeq(pnls)
        average_win == IF winning_trades # <<>> THEN FMean(winning_trades) ELSE FInt(0)
        average_loss == IF losing_trades # <<>>
                        THEN FMean([i \in 1..Len(losing_trades) |-> FAbs(losing_trades[i])])
                        ELSE FInt(0)
        risk_reward_ratio == IF average_loss.n > 0
                             THEN FAbs(FDiv(average_win, average_loss)) ELSE FInt(0)
        total_profit == IF winning_trades # <<>> THEN FSumSeq(winning_trades) ELSE FInt(0)
        total_loss == IF losing_trades # <<>> THEN FAbs(FSumSeq(losing_trades)) ELSE FInt(0)
        profit_factor == IF total_loss.n > 0 THEN FDiv(total_profit, total_loss)
                         ELSE FInt(0)
        drawdown == drawdown_series(pnls)
        max_drawdown == IF Len(drawdown) > 0 THEN DrawdownAbs(DrawdownMin(drawdown))
                        ELSE FInt(1)
        sharpe_ratio == sharpe_of(pnls)
    IN  IF IsRaised(win_rate) THEN win_rate
        ELSE BacktestResult(strategy, win_rate, total_trades, Len(winning_trades), Len(losing_trades), max_drawdown, sharpe_ratio, risk_reward_ratio, total_return, average_win, average_loss, profit_factor, calculate_confidence_score(win_rate, sharpe_ratio, max_drawdown, profit_factor, total_trades))

\* the part of backtest_strategy after _generate_signals returned
run_on_signals(signals, engine, strategy, scratch) ==
    LET trades == execute_trades(signals, strategy, engine.slippage, engine.spread, scratch)
        result == calculate_metrics(strategy, trades)
    IN  IF IsRaised(result)
        THEN [result |-> error_result(strategy), caught |-> result.raised, trades |-> trades]
        ELSE [result |-> result, caught |-> "none", trades |-> trades]

\* a variant of backtest_strategy without the try block around signal
\* generation
backtest_strategy_unguarded(engine, strategy, scratch) ==
    LET signals == generate_signals(engine, strategy)
    IN  IF IsRaised(signals)
        THEN signals
        ELSE run_on_signals(signals.frame, engine, strategy, scratch)

\* backtest_strategy: signals, trades, metrics; any exception on the way is
\* caught and answered with the worst-case result.  The outcome carries the
\* exception caught ("none" if none) and the trade list the run leaves
\* behind.
backtest_strategy(engine, strategy, scratch) ==
    LET signals == generate_signals(engine, strategy)
    IN  IF IsRaised(signals)
        THEN [result |-> error_result(strategy), caught |-> signals.raised, trades |-> scratch]
        ELSE run_on_signals(signals.frame, engine, strategy, scratch)

(***************************************************************************)
(* Backtesting: inputs and calls                                           *)
(***************************************************************************)
\* bars of one price series
MaxBars ==
    3

\* backtest_strategy calls on one engine
MaxRuns ==
    2

Bar(close, range, volume) ==
    [close |-> FInt(close), high |-> FInt(close + range), low |-> FInt(close - range), volume |-> FInt(volume)]

BarChoices ==
    {Bar(10000, 0, 1), Bar(10000, 50, 4), Bar(10020, 0, 1), Bar(10020, 50, 4), Bar(20000, 0, 1), Bar(20000, 50, 4)}

\* a frame without the 'volume' column
DropVolume(rows) ==
    [i \in 1..Len(rows) |-> [close |-> rows[i].close, high |-> rows[i].high, low |-> rows[i].low, volume |-> NoneV]]

DataFrame(has_volume, rows) ==
    [has_volume |-> has_volume, rows |-> IF has_volume THEN rows ELSE DropVolume(rows)]

\* the constructor's default costs, and a frictionless market
CostChoices ==
    {[slippage |-> Frac(2, 10000), spread |-> Frac(1, 10000)], [slippage |-> FInt(0), spread |-> FInt(0)]}

TightExits ==
    [stop_loss_pct |-> Frac(2, 1000), take_profit_pct |-> Frac(4, 1000)]

Strategy(id, name, type, parameters, exit_conditions) ==
    [id |-> id, name |-> name, type |-> type, parameters |-> parameters, exit_conditions |-> exit_conditions]

\* one strategy of each family the engine is modelled for
BacktestStrategies ==
    {Strategy("strategy_1", <<"ema", "cross", "1", "3">>, <<"crossover">>, [fast_ema |-> 1, slow_ema |-> 3], TightExits),
     Strategy("strategy_2", <<"volume", "2", "1.5">>, <<"volume", "breakout">>, [volume_period |-> 2, volume_multiplier |-> Frac(3, 2)], TightExits),
     Strategy("strategy_3", <<"atr", "2", "2.0">>, <<"atr", "range">>, [atr_period |-> 2, atr_multiplier |-> FInt(2)], [range_reversion |-> TRUE]),
     Strategy("strategy_4", <<"sr", "20">>, <<"sr", "bounce">>, [lookback |-> 20], [bounce |-> TRUE])}

Engines ==
    {"engine_1", "engine_2"}

BtIdle ==
    /\ bt_data = NoneV
    /\ bt_costs = NoneV
    /\ bt_strategy = NoneV
    /\ engines = NoneV
    /\ bt_scratch = NoneV
    /\ bt_runs = NoneV
    /\ bt_outcomes = {}

BtInit ==
    /\ \E has_volume \in BOOLEAN : \E rows \in SeqsUpTo(BarChoices, MaxBars) :
           bt_data = DataFrame(has_volume, rows)
    /\ bt_costs \in CostChoices
    /\ bt_strategy \in BacktestStrategies
    /\ engines = [e \in Engines |-> NoneV]
    /\ bt_scratch = [e \in Engines |-> <<>>]
    /\ bt_runs = [e \in Engines |-> 0]
    /\ bt_outcomes = {}

\* engine = BacktestEngine(data, slippage, spread)
BuildEngine ==
    \E e \in Engines :
        /\ engines[e] = NoneV
        /\ engines' = [engines EXCEPT ![e] = BacktestEngine(bt_data, bt_costs.slippage, bt_costs.spread)]
        /\ UNCHANGED <<bt_data, bt_costs, bt_strategy, bt_scratch, bt_runs, bt_outcomes>>

\* engine.backtest_strategy(strategy): the engine's fields are not written
RunBacktest ==
    \E e \in Engines :
        /\ engines[e] # NoneV
        /\ bt_runs[e] < MaxRuns
        /\ \E out \in {backtest_strategy(engines[e], bt_strategy, bt_scratch[e])} :
               /\ bt_scratch' = [bt_scratch EXCEPT ![e] = out.trades]
               /\ bt_outcomes' = bt_outcomes \cup {[result |-> out.result, caught |-> out.caught]}
        /\ bt_runs' = [bt_runs EXCEPT ![e] = @ + 1]
        /\ UNCHANGED <<bt_data, bt_costs, bt_strategy, engines>>

(***************************************************************************)
(* Performance metrics: inputs and calls                                   *)
(***************************************************************************)
\* trades of a list of unit wins and losses
MaxTrades ==
    10

\* trades of a list of mixed amounts
MaxMixedTrades ==
    4

UnitPnls ==
    {-1, 1}

MixedPnls ==
    {-3, -1, 0, 1, 2}

\* a closed trade as far as _calculate_metrics reads it
Trade(pnl) ==
    [pnl |-> FInt(pnl)]

TradeLists ==
    LET Lists(S, n) == UNION {[1..k -> {Trade(p) : p \in S}] : k \in 0..n}
    IN  Lists(UnitPnls, MaxTrades) \cup Lists(MixedPnls, MaxMixedTrades)

MetricsStrategy ==
    Strategy("strategy_1", <<"ema", "cross", "1", "3">>, <<"crossover">>, [fast_ema |-> 1, slow_ema |-> 3], TightExits)

MetIdle ==
    /\ met_trades = <<>>
    /\ met_pc = "idle"
    /\ met_result = NoneV

MetInit ==
    /\ met_trades \in TradeLists
    /\ met_pc = "ready"
    /\ met_result = NoneV

\* result = self._calculate_metrics(strategy, trades)
CalculateMetrics ==
    /\ met_pc = "ready"
    /\ met_result' = calculate_metrics(MetricsStrategy, met_trades)
    /\ met_pc' = "done"
    /\ UNCHANGED met_trades

(***************************************************************************)
(* Walk-Forward Validator                                                  *)
(* A window is [train, validation]: what the engine built on its training  *)
(* data and the engine built on its validation data return for the         *)
(* strategy, as far as walk_forward_backtest reads them.                   *)
(***************************************************************************)
DefaultMinPeriods ==
    3

MinWinRateDecay ==
    Frac(85, 100)

MinConsistency ==
    Frac(70, 100)

MinValidationWinRate ==
    Frac(45, 100)

\* a comparison with NaN is False
AtLeast(a, b) ==
    a # NaNF /\ FGe(a, b)

\* np.mean: NaN for an empty list
NanMean(values) ==
    IF values = <<>> THEN NaNF ELSE FMean(values)

\* the dict returned when there is no window, or no result
invalid_result(strategy) ==
    [strategy_id |-> strategy.id, walk_forward_valid |-> FALSE,
     avg_train_win_rate |-> FInt(0), avg_validation_win_rate |-> FInt(0),
     win_rate_decay |-> FInt(1), periods |-> 0, consistency_score |-> FInt(0)]

\* [r.win_rate for r in results if r.total_trades > 0]
TradedWinRates(results) ==
    LET Traded(r) == r.total_trades > 0
        traded == SelectSeq(results, Traded)
    IN  [i \in 1..Len(traded) |-> traded[i].win_rate]

\* 1.0 - abs(train_wr - val_wr) for the windows where both runs traded
period_scores(windows) ==
    LET BothTraded(w) == w.train.total_trades > 0 /\ w.validation.total_trades > 0
        scored == SelectSeq(windows, BothTraded)
    IN  [i \in 1..Len(scored) |->
            FSub(FInt(1), FAbs(FSub(scored[i].train.win_rate, scored[i].validation.win_rate)))]

\* a variant of is_valid that does not ask for a minimum of windows
is_valid_any_periods(periods, min_periods, win_rate_decay, consistency_score, avg_val_wr) ==
    /\ AtLeast(win_rate_decay, MinWinRateDecay)
    /\ AtLeast(consistency_score, MinConsistency)
    /\ AtLeast(avg_val_wr, MinValidationWinRate)

\* the validation criteria
is_valid(periods, min_periods, win_rate_decay, consistency_score, avg_val_wr) ==
    /\ periods >= min_periods
    /\ AtLeast(win_rate_decay, MinWinRateDecay)
    /\ AtLeast(consistency_score, MinConsistency)
    /\ AtLeast(avg_val_wr, MinValidationWinRate)

\* walk_forward_backtest, from the windows on; the means of the Sharpe
\* ratios and drawdowns it adds to the dict are not carried
walk_forward_backtest(strategy, windows, min_periods) ==
    IF windows = <<>> THEN invalid_result(strategy)
    ELSE
    LET train_results == [i \in 1..Len(windows) |-> windows[i].train]
        validation_results == [i \in 1..Len(windows) |-> windows[i].validation]
        avg_train_wr == NanMean(TradedWinRates(train_results))
        avg_val_wr == NanMean(TradedWinRates(validation_results))
        win_rate_decay == IF avg_train_wr # NaNF /\ avg_train_wr.n > 0
                          THEN (IF avg_val_wr = NaNF THEN NaNF
                                ELSE FDiv(avg_val_wr, avg_train_wr))
                          ELSE FInt(0)
        scores == period_scores(windows)
        consistency_score == IF scores # <<>> THEN FMean(scores) ELSE FInt(0)
    IN  IF train_results = <<>> \/ validation_results = <<>>
        THEN invalid_result(strategy)
        ELSE [strategy_id |-> strategy.id,
              walk_forward_valid |->
                  is_valid(Len(windows), min_periods, win_rate_decay, consistency_score, avg_val_wr),
              avg_train_win_rate |-> avg_train_wr,
              avg_validation_win_rate |-> avg_val_wr,
              win_rate_decay |-> win_rate_decay, periods |-> Len(windows),
              consistency_score |-> consistency_score]

(***************************************************************************)
(* Walk-Forward Validator: inputs and calls                                *)
(***************************************************************************)
\* windows of one walk-forward run
MaxWindows ==
    3

WindowResult(total_trades, win_rate) ==
    [total_trades |-> total_trades, win_rate |-> win_rate]

\* a run without trades, and runs of ten trades with 4, 5 and 10 winners
WindowResultChoices ==
    {WindowResult(0, FInt(0)), WindowResult(10, Frac(2, 5)), WindowResult(10, Frac(1, 2)), WindowResult(10, FInt(1))}

WindowChoices ==
    [train : WindowResultChoices, validation : WindowResultChoices]

MinPeriodsChoices ==
    {2, DefaultMinPeriods}

WfIdle ==
    /\ wf_min_periods = DefaultMinPeriods
    /\ wf_windows = <<>>
    /\ wf_pc = "idle"
    /\ wf_result = NoneV

WfInit ==
    /\ wf_min_periods \in MinPeriodsChoices
    /\ wf_windows \in SeqsUpTo(WindowChoices, MaxWindows)
    /\ wf_pc = "ready"
    /\ wf_result = NoneV

\* wf_result = optimizer.walk_forward_backtest(strategy, data)
WalkForwardBacktest ==
    /\ wf_pc = "ready"
    /\ wf_result' = walk_forward_backtest(MetricsStrategy, wf_windows, wf_min_periods)
    /\ wf_pc' = "done"
    /\ UNCHANGED <<wf_min_periods, wf_windows>>

(***************************************************************************)
(* Regime Classifier: detect_regime                                        *)
(* A volatility (a standard deviation) is kept as its square, the          *)
(* variance.  A percentile of volatilities is [lo, hi, w], the number      *)
(* (1 - w) * sqrt(lo) + w * sqrt(hi).                                      *)
(***************************************************************************)
AdxThreshold ==
    25

VolatilityPercentile ==
    75

ShortTrendWindow ==
    20

LongTrendWindow ==
    50

CurrentVolatilityWindow ==
    20

VolatilityHistoryWindow ==
    50

\* volatility_percentile * 1.5
VolatileFactor ==
    Frac(3, 2)

NeutralRegime ==
    [regime |-> "ranging", confidence |-> Frac(1, 2)]

\* close.pct_change()
PctChange(close) ==
    [i \in 1..Len(close) |->
        IF i = 1 THEN NaNF ELSE FSub(FDiv(close[i], close[i - 1]), FInt(1))]

DropNa(values) ==
    LET Present(v) == v # NaNF
    IN  SelectSeq(values, Present)

\* the square of series.std(): NaN values are skipped, fewer than two
\* values give NaN
SampleVariance(values) ==
    LET present == DropNa(values)
        mean == FMean(present)
        squares == [i \in 1..Len(present) |->
                       FMul(FSub(present[i], mean), FSub(present[i], mean))]
    IN  IF Len(present) < 2 THEN NaNF
        ELSE FMul(FSumSeq(squares), Frac(1, Len(present) - 1))

\* the squares of series.rolling(window).std(): NaN until the window is
\* full of values
RollingVariance(values, window) ==
    [i \in 1..Len(values) |->
        IF i < window \/ \E j \in (i - window + 1)..i : values[j] = NaNF
        THEN NaNF
        ELSE SampleVariance(SubSeq(values, i - window + 1, i))]

RECURSIVE FInsertSorted(_, _)
FInsertSorted(x, s) ==
    IF s = <<>> THEN <<x>>
    ELSE IF FLt(s[1], x) THEN <<s[1]>> \o FInsertSorted(x, Tail(s))
    ELSE <<x>> \o s

RECURSIVE FSortAscending(_)
FSortAscending(s) ==
    IF s = <<>> THEN <<>> ELSE FInsertSorted(s[1], FSortAscending(Tail(s)))

\* np.percentile(volatilities, q) of a non-empty list: linear interpolation
\* between the two order statistics around position (n - 1) * q / 100
VolatilityPercentileOf(variances, q) ==
    LET sorted == FSortAscending(variances)
        n == Len(sorted)
        below == ((n - 1) * q) \div 100
        w == Frac(((n - 1) * q) % 100, 100)
    IN  IF w.n = 0 THEN [lo |-> sorted[below + 1], hi |-> sorted[below + 1], w |-> FInt(0)]
        ELSE [lo |-> sorted[below + 1], hi |-> sorted[below + 2], w |-> FNorm(w)]

Sign(x) ==
    IF x < 0 THEN -1 ELSE IF x > 0 THEN 1 ELSE 0

\* -1, 0 or 1 as the volatility of the given variance is below, equal to or
\* above factor * percentile.  The percentile lies between sqrt(lo) and
\* sqrt(hi), which decides it when the variance is not between
\* factor^2 * lo and factor^2 * hi; there, c against a + b with
\* c^2 = variance, a^2 = factor^2 (1 - w)^2 lo and b^2 = factor^2 w^2 hi is
\* decided by c^2 - a^2 - b^2 against 2ab
CompareVolatility(variance, percentile, factor) ==
    LET f2 == FMul(factor, factor)
        u == FSub(FInt(1), percentile.w)
        a2 == FMul(f2, FMul(FMul(u, u), percentile.lo))
        b2 == FMul(f2, FMul(FMul(percentile.w, percentile.w), percentile.hi))
        rest == FSub(variance, FAdd(a2, b2))
    IN  IF percentile.lo = percentile.hi THEN FDiff(variance, FMul(f2, percentile.lo))
        ELSE IF FGt(variance, FMul(f2, percentile.hi)) THEN 1
        ELSE IF FLt(variance, FMul(f2, percentile.lo)) THEN -1
        ELSE IF a2.n = 0 \/ b2.n = 0 THEN Sign(rest.n)
        ELSE IF rest.n <= 0 THEN -1
        ELSE FDiff(FMul(rest, rest), FMul(FInt(4), FMul(a2, b2)))

\* detect_regime, given the ADX _calculate_adx finds on the recent bars
detect_regime(close, adx, lookback) ==
    IF close = <<>> \/ Len(close) < lookback THEN NeutralRegime
    ELSE
    LET recent == TailRows(close, lookback)
        sma_short == RollingMean(recent, ShortTrendWindow)
        sma_long == RollingMean(recent, LongTrendWindow)
        price_trend_up == Above(sma_short[Len(recent)], sma_long[Len(recent)])
        returns == PctChange(recent)
        current_volatility == SampleVariance(TailRows(returns, CurrentVolatilityWindow))
        volatility_dropped == DropNa(RollingVariance(returns, VolatilityHistoryWindow))
    IN  IF volatility_dropped = <<>> THEN NeutralRegime
        ELSE
        LET volatility_percentile == VolatilityPercentileOf(volatility_dropped, VolatilityPercentile)
        IN  IF current_volatility # NaNF
               /\ CompareVolatility(current_volatility, volatility_percentile, VolatileFactor) > 0
            THEN \* min(1.0, (current_volatility / volatility_percentile) / 2.0)
                 [regime |-> "volatile",
                  confidence |->
                      IF CompareVolatility(current_volatility, volatility_percentile, FInt(2)) >= 0
                      THEN FInt(1)
                      ELSE [half_of |-> current_volatility, over |-> volatility_percentile]]
            ELSE IF adx # NaNF /\ FGe(adx, FInt(AdxThreshold))
            THEN [regime |-> IF price_trend_up THEN "trending_up" ELSE "trending_down",
                  confidence |-> FMin(FInt(1), FDiv(adx, FInt(50)))]
            ELSE \* max(0.5, 1.0 - adx / adx_threshold), 0.5 for a NaN ADX
                 [regime |-> "ranging",
                  confidence |->
                      IF adx = NaNF THEN Frac(1, 2)
                      ELSE FMax(Frac(1, 2), FSub(FInt(1), FDiv(adx, FInt(AdxThreshold))))]

(***************************************************************************)
(* Regime Classifier: inputs and calls                                     *)
(***************************************************************************)
\* bars of the window handed to detect_regime
MaxRegimeBars ==
    52

DefaultLookback ==
    50

LookbackChoices ==
    {DefaultLookback, DefaultLookback + 1}

\* closes that stay, that swing between 4 and 5, that swing between 4 and 8
Flat ==
    <<4, 4>>

Calm ==
    <<4, 5>>

Wild ==
    <<4, 8>>

\* a window of the given length whose last bars follow one pattern and the
\* bars before them another
RegimeWindow(length, body, tail, tail_length) ==
    [i \in 1..length |->
        IF i > length - tail_length THEN FInt(tail[(i % 2) + 1]) ELSE FInt(body[(i % 2) + 1])]

RegimeWindowChoices ==
    {RegimeWindow(length, body, tail, tail_length) :
        length \in {0} \cup ((DefaultLookback - 1)..MaxRegimeBars),
        body \in {Flat, Calm, Wild}, tail \in {Flat, Calm, Wild},
        tail_length \in {0, 10, 20}}

AdxChoices ==
    {NaNF, FInt(10), FInt(25), FInt(40)}

RegIdle ==
    /\ lookback_periods = DefaultLookback
    /\ reg_close = <<>>
    /\ reg_adx = NaNF
    /\ reg_pc = "idle"
    /\ reg_out = NoneV

RegInit ==
    /\ lookback_periods \in LookbackChoices
    /\ reg_close \in RegimeWindowChoices
    /\ reg_adx \in AdxChoices
    /\ reg_pc = "ready"
    /\ reg_out = NoneV

\* regime, confidence = detector.detect_regime(data)
DetectRegime ==
    /\ reg_pc = "ready"
    /\ reg_out' = detect_regime(reg_close, reg_adx, lookback_periods)
    /\ reg_pc' = "done"
    /\ UNCHANGED <<lookback_periods, reg_close, reg_adx>>

(***************************************************************************)
(* Drift Monitor                                                           *)
(* Outcomes and baseline metrics are rationals.  The recent Sharpe ratio   *)
(* is a Sharpe value; the Sharpe degradation is kept as                    *)
(* [baseline, recent], the number (baseline - recent) / baseline.  The     *)
(* verdict of the Kolmogorov-Smirnov test (p_value < 0.05) is an input.    *)
(***************************************************************************)
DefaultDriftThreshold ==
    Frac(15, 100)

DefaultMinTradesForDetection ==
    30

DefaultAlertCooldownHours ==
    24

MinDistributionSamples ==
    20

HighDegradation ==
    Frac(30, 100)

MediumDegradation ==
    Frac(20, 100)

\* sign * sqrt(252 * square) < bound
SharpeBelow(sharpe, bound) ==
    LET annualised == FMul(FInt(AnnualisationFactor), sharpe.square)
        bound_squared == FMul(bound, bound)
    IN  IF sharpe.sign > 0 THEN bound.n > 0 /\ FLt(annualised, bound_squared)
        ELSE IF sharpe.sign = 0 THEN bound.n > 0
        ELSE bound.n >= 0 \/ FGt(annualised, bound_squared)

IsSharpeDegradation(degradation) ==
    "recent" \in DOMAIN degradation

\* degradation > level
DegradationAbove(degradation, level) ==
    IF IsSharpeDegradation(degradation)
    THEN SharpeBelow(degradation.recent,
                     FMul(degradation.baseline, FSub(FInt(1), level)))
    ELSE FGt(degradation, level)

\* trade.get('outcome', 0) of every trade
OutcomesOf(trades) ==
    [i \in 1..Len(trades) |-> Get(trades[i], "outcome", FInt(0))]

\* (np.mean(returns) / np.std(returns)) * np.sqrt(252) when there are at
\* least two outcomes and their population deviation is positive, else 0.0
drift_sharpe_ratio(outcomes) ==
    LET mean == FMean(outcomes)
        squares == [i \in 1..Len(outcomes) |-> FMul(outcomes[i], outcomes[i])]
        variance == FSub(FMean(squares), FMul(mean, mean))
    IN  IF Len(outcomes) > 1 /\ variance.n > 0 /\ mean.n # 0
        THEN Sharpe(IF mean.n > 0 THEN 1 ELSE -1, FDiv(FMul(mean, mean), variance))
        ELSE Sharpe(0, FInt(0))

\* np.max of a non-empty list of rationals, by halves
RECURSIVE FMaxByHalves(_)
FMaxByHalves(s) ==
    IF Len(s) <= 1 THEN s[1]
    ELSE LET half == Len(s) \div 2
         IN  FMax(FMaxByHalves(SubSeq(s, 1, half)),
                  FMaxByHalves(SubSeq(s, half + 1, Len(s))))

\* cumulative = np.cumsum(returns),
\* running_max = np.maximum.accumulate(cumulative),
\* drawdown = running_max - cumulative, and np.max(drawdown)
drift_max_drawdown(outcomes) ==
    LET cumulative == SubSeq(CumSum(outcomes), 1, Len(outcomes))
        running_max ==
            [i \in 1..Len(outcomes) |-> FMaxByHalves(SubSeq(cumulative, 1, i))]
        drawdown ==
            [i \in 1..Len(outcomes) |-> FSub(running_max[i], cumulative[i])]
    IN  FMaxByHalves(SubSeq(drawdown, 1, Len(outcomes)))

drift_calculate_metrics(trades) ==
    LET outcomes == OutcomesOf(trades)
        IsWin(o) == o.n > 0
        IsLoss(o) == o.n < 0
        wins == SelectSeq(outcomes, IsWin)
        losing == SelectSeq(outcomes, IsLoss)
        losses == [i \in 1..Len(losing) |-> FAbs(losing[i])]
        total_profit == FSumSeq(wins)
        total_loss == FSumSeq(losses)
    IN  IF trades = <<>>
        THEN [win_rate |-> FInt(0), profit_factor |-> FInt(0),
              sharpe_ratio |-> Sharpe(0, FInt(0)), max_drawdown |-> FInt(0),
              avg_win |-> FInt(0), avg_loss |-> FInt(0)]
        ELSE [win_rate |-> FNorm(Frac(Len(wins), Len(trades))),
              profit_factor |->
                  IF total_loss.n > 0 THEN FDiv(total_profit, total_loss)
                  ELSE FInt(0),
              sharpe_ratio |-> drift_sharpe_ratio(outcomes),
              max_drawdown |-> drift_max_drawdown(outcomes),
              avg_win |-> IF wins # <<>> THEN FMean(wins) ELSE FInt(0),
              avg_loss |-> IF losses # <<>> THEN FMean(losses) ELSE FInt(0),
              total_trades |-> Len(trades)]

NoBaseline ==
    [has_drift |-> FALSE, reason |-> "no_baseline"]

DriftCheck(has_drift, recent, baseline, degradation, threshold) ==
    [has_drift |-> has_drift, recent |-> recent, baseline |-> baseline,
     degradation |-> degradation, threshold |-> threshold]

check_win_rate_drift(recent_wr, baseline_wr, threshold) ==
    LET degradation == FDiv(FSub(baseline_wr, recent_wr), baseline_wr)
    IN  IF baseline_wr.n = 0 THEN NoBaseline
        ELSE DriftCheck(FGt(degradation, threshold), recent_wr, baseline_wr,
                        degradation, threshold)

check_profit_factor_drift(recent_pf, baseline_pf, threshold) ==
    LET degradation == FDiv(FSub(baseline_pf, recent_pf), baseline_pf)
    IN  IF baseline_pf.n = 0 THEN NoBaseline
        ELSE DriftCheck(FGt(degradation, threshold), recent_pf, baseline_pf,
                        degradation, threshold)

check_sharpe_drift(recent_sharpe, baseline_sharpe, threshold) ==
    LET degradation == [baseline |-> baseline_sharpe, recent |-> recent_sharpe]
    IN  IF baseline_sharpe.n <= 0 THEN NoBaseline
        ELSE DriftCheck(DegradationAbove(degradation, threshold), recent_sharpe,
                        baseline_sharpe, degradation, threshold)

\* ks_rejects is p_value < 0.05 of stats.ks_2samp on the two samples
check_distribution_drift(recent_trades, baseline_metrics, ks_rejects) ==
    IF "return_distribution" \notin DOMAIN baseline_metrics
    THEN [has_drift |-> FALSE, reason |-> "no_baseline_distribution"]
    ELSE IF \/ Len(OutcomesOf(recent_trades)) < MinDistributionSamples
            \/ Len(baseline_metrics.return_distribution) < MinDistributionSamples
    THEN [has_drift |-> FALSE, reason |-> "insufficient_samples"]
    ELSE [has_drift |-> ks_rejects, test |-> "Kolmogorov-Smirnov"]

BoolCount(flags) ==
    Cardinality({i \in 1..Len(flags) : flags[i]})

\* the HIGH level asks for the degradation alone
calculate_severity_by_degradation(win_rate_drift, pf_drift, sharpe_drift, dist_drift) ==
    LET drift_count == BoolCount(<<win_rate_drift.has_drift, pf_drift.has_drift,
                                   sharpe_drift.has_drift, dist_drift.has_drift>>)
        degradations == {Get(win_rate_drift, "degradation", FInt(0)),
                         Get(pf_drift, "degradation", FInt(0)),
                         Get(sharpe_drift, "degradation", FInt(0))}
        MaxAbove(level) == \E deg \in degradations : DegradationAbove(deg, level)
    IN  IF drift_count >= 3 THEN "CRITICAL"
        ELSE IF MaxAbove(HighDegradation) THEN "HIGH"
        ELSE IF drift_count = 1 \/ MaxAbove(MediumDegradation) THEN "MEDIUM"
        ELSE IF MaxAbove(FInt(0)) THEN "LOW"
        ELSE "NONE"

\* max(wr_deg, pf_deg, sharpe_deg) exceeds a level when one of the three does
calculate_severity(win_rate_drift, pf_drift, sharpe_drift, dist_drift) ==
    LET drift_count == BoolCount(<<win_rate_drift.has_drift, pf_drift.has_drift,
                                   sharpe_drift.has_drift, dist_drift.has_drift>>)
        degradations == {Get(win_rate_drift, "degradation", FInt(0)),
                         Get(pf_drift, "degradation", FInt(0)),
                         Get(sharpe_drift, "degradation", FInt(0))}
        MaxAbove(level) == \E deg \in degradations : DegradationAbove(deg, level)
    IN  IF drift_count >= 3 THEN "CRITICAL"
        ELSE IF drift_count = 2 \/ MaxAbove(HighDegradation) THEN "HIGH"
        ELSE IF drift_count = 1 \/ MaxAbove(MediumDegradation) THEN "MEDIUM"
        ELSE IF MaxAbove(FInt(0)) THEN "LOW"
        ELSE "NONE"

detect_performance_drift(strategy_id, recent_trades, baseline_metrics, ks_rejects, threshold, min_trades, now) ==
    LET recent_metrics == drift_calculate_metrics(recent_trades)
        win_rate_drift ==
            check_win_rate_drift(recent_metrics.win_rate,
                                 Get(baseline_metrics, "win_rate", Frac(1, 2)),
                                 threshold)
        pf_drift ==
            check_profit_factor_drift(recent_metrics.profit_factor,
                                      Get(baseline_metrics, "profit_factor", FInt(1)),
                                      threshold)
        sharpe_drift ==
            check_sharpe_drift(recent_metrics.sharpe_ratio,
                               Get(baseline_metrics, "sharpe_ratio", FInt(0)),
                               threshold)
        distribution_drift ==
            check_distribution_drift(recent_trades, baseline_metrics, ks_rejects)
        has_drift == \/ win_rate_drift.has_drift
                     \/ pf_drift.has_drift
                     \/ sharpe_drift.has_drift
                     \/ distribution_drift.has_drift
    IN  IF Len(recent_trades) < min_trades
        THEN <<FALSE, [reason |-> "insufficient_data",
                       trades_count |-> Len(recent_trades)]>>
        ELSE <<has_drift,
               [strategy_id |-> strategy_id,
                timestamp |-> now,
                recent_trades_count |-> Len(recent_trades),
                has_drift |-> has_drift,
                win_rate |-> win_rate_drift,
                profit_factor |-> pf_drift,
                sharpe_ratio |-> sharpe_drift,
                distribution |-> distribution_drift,
                recent_metrics |-> recent_metrics,
                baseline_metrics |-> baseline_metrics,
                severity |-> calculate_severity(win_rate_drift, pf_drift,
                                                sharpe_drift, distribution_drift)]>>

\* the longest list of recent trades
MaxDriftTrades ==
    30

DriftThresholdChoices ==
    {DefaultDriftThreshold, Frac(1, 2)}

MinTradesChoices ==
    {10, DefaultMinTradesForDetection}

DriftTradeCounts ==
    {9, 10, MaxDriftTrades}

\* a live trade as far as the detector reads it; a trade may lack its outcome
LiveTrade(outcome) ==
    [outcome |-> FInt(outcome)]

OpenTrade ==
    [pair |-> "EURUSD"]

\* wins of one amount, then trades without an outcome, then unit losses
RecentTrades(count, wins, win_amount, open) ==
    [i \in 1..count |->
        IF i <= wins THEN LiveTrade(win_amount)
        ELSE IF i <= wins + open THEN OpenTrade
        ELSE LiveTrade(-1)]

RecentTradeChoices ==
    {RecentTrades(count, wins, shape[1], shape[2]) :
        count \in DriftTradeCounts, wins \in 0..(MaxDriftTrades - 1),
        shape \in {<<1, 0>>, <<2, 0>>, <<1, 1>>}}

Samples(count) ==
    [i \in 1..count |-> FInt(0)]

Optional(key, values) ==
    {<<>>} \cup {key :> v : v \in values}

BaselineChoices ==
    {wr @@ pf @@ sh @@ dist :
        wr \in Optional("win_rate", {FInt(0), Frac(11, 20)}),
        pf \in Optional("profit_factor", {FInt(0), FInt(2)}),
        sh \in Optional("sharpe_ratio", {FInt(1)}),
        dist \in Optional("return_distribution",
                          {Samples(5), Samples(MinDistributionSamples)})}

DriftIdle ==
    /\ drift_threshold = DefaultDriftThreshold
    /\ min_trades_for_detection = DefaultMinTradesForDetection
    /\ drift_in = NoneV
    /\ drift_pc = "idle"
    /\ drift_out = NoneV

\* DriftDetector(drift_threshold, min_trades_for_detection) and the
\* arguments of one detect_performance_drift call
DriftInit ==
    /\ drift_threshold \in DriftThresholdChoices
    /\ min_trades_for_detection \in MinTradesChoices
    /\ drift_in \in [strategy_id : {"strategy_1"},
                     recent_trades : RecentTradeChoices,
                     baseline_metrics : BaselineChoices,
                     ks_rejects : BOOLEAN]
    /\ drift_pc = "ready"
    /\ drift_out = NoneV

\* has_drift, drift_report = detector.detect_performance_drift(...)
DetectPerformanceDrift ==
    /\ drift_pc = "ready"
    /\ drift_out' = detect_performance_drift(drift_in.strategy_id,
                        drift_in.recent_trades, drift_in.baseline_metrics,
                        drift_in.ks_rejects, drift_threshold,
                        min_trades_for_detection, 0)
    /\ drift_pc' = "done"
    /\ UNCHANGED <<drift_threshold, min_trades_for_detection, drift_in>>

(***************************************************************************)
(* One calculate_correlation call without price data                       *)
(***************************************************************************)
CorrelationCurrencies ==
    {"EUR", "GBP", "USD", "JPY", "CHF"}

\* 'EURUSD' and 'EUR/USD'
PlainName(base, quote) ==
    <<base, quote>>

SlashName(base, quote) ==
    <<base, "/", quote>>

InstrumentNames ==
    LET pairs == {p \in CorrelationCurrencies \X CorrelationCurrencies : p[1] # p[2]}
    IN  {PlainName(p[1], p[2]) : p \in pairs} \cup {SlashName(p[1], p[2]) : p \in pairs}

CorrIdle ==
    /\ corr_in = NoneV
    /\ corr_pc = "idle"
    /\ corr_out = NoneV

CorrInit ==
    /\ corr_in \in [pair1 : InstrumentNames, pair2 : InstrumentNames]
    /\ corr_pc = "ready"
    /\ corr_out = NoneV

\* correlation = manager.calculate_correlation(pair1, pair2)
CalculateCorrelation ==
    /\ corr_pc = "ready"
    /\ corr_out' = calculate_correlation(corr_in.pair1, corr_in.pair2)
    /\ corr_pc' = "done"
    /\ UNCHANGED corr_in

(***************************************************************************)
(* Pre-deployment: the batch loop over the generated strategies            *)
(***************************************************************************)
\* strategies of one batch
MaxBatch ==
    3

BatchBarChoices ==
    {Bar(10000, 0, 1), Bar(20000, 50, 4)}

BatchIdle ==
    /\ train_engine = NoneV
    /\ batch_strategies = <<>>
    /\ batch_results = <<>>
    /\ batch_saved = <<>>
    /\ batch_pc = "idle"

\* train_engine = BacktestEngine(train_data); results = []
BatchInit ==
    /\ \E has_volume \in BOOLEAN : \E rows \in [1..MaxBars -> BatchBarChoices] :
           train_engine = BacktestEngine(DataFrame(has_volume, rows),
                                         Frac(2, 10000), Frac(1, 10000))
    /\ batch_strategies \in SeqsUpTo(BacktestStrategies, MaxBatch)
    /\ batch_results = <<>>
    /\ batch_saved = <<>>
    /\ batch_pc = "loop"

\* one iteration of `for i, strategy in enumerate(strategies)': backtest,
\* append the result, save the strategy and the result; an exception that
\* leaves backtest_strategy leaves the loop and main
BacktestNextStrategy ==
    /\ batch_pc = "loop"
    /\ Len(batch_results) < Len(batch_strategies)
    /\ \E strategy \in {batch_strategies[Len(batch_results) + 1]} :
       \E out \in {backtest_strategy(train_engine, strategy, <<>>)} :
           IF IsRaised(out)
           THEN /\ batch_pc' = "raised"
                /\ UNCHANGED <<batch_results, batch_saved>>
           ELSE /\ batch_results' = Append(batch_results, out.result)
                /\ batch_saved' = Append(batch_saved, <<strategy.id, out.result.strategy_id>>)
                /\ UNCHANGED batch_pc
    /\ UNCHANGED <<train_engine, batch_strategies>>

\* the loop is over: logger.info(f"Backtested {len(results)} strategies")
FinishBatch ==
    /\ batch_pc = "loop"
    /\ Len(batch_results) = Len(batch_strategies)
    /\ batch_pc' = "done"
    /\ UNCHANGED <<train_engine, batch_strategies, batch_results, batch_saved>>

(***************************************************************************)
(* Periodic tasks.  A task runs from one await to the next in one step.    *)
(* What the collaborators answer for an instrument is an input: the data   *)
(* service raises, has no data, or has data on which signal generation     *)
(* raises, gives no signal or gives a signal, which the risk gate (signal  *)
(* check only) then raises on, rejects or accepts.  task.cancel() raises   *)
(* CancelledError at the await the task is waiting in; CancelledError is   *)
(* not an Exception.                                                       *)
(***************************************************************************)
\* updates of the learning loop
MaxUpdates ==
    2

AutoAnswers ==
    {"fetch_raises", "no_data", "generate_raises", "no_signal", "risk_raises",
     "unsafe", "safe"}

StatusAnswers ==
    {"fetch_raises", "no_data", "generate_raises", "no_signal", "signal"}

SendAnswers ==
    {"ok", "send_raises", "save_raises"}

Step(pair, step) ==
    [pair |-> pair, step |-> step]

\* what a finished pass did: the instruments it evaluated, and whether an
\* exception was caught on the way
PassSummary(log) ==
    [evaluated |-> [i \in 1..Len(log) |-> log[i].pair],
     errors |-> \E i \in 1..Len(log) : log[i].step = "error"]

\* a variant of auto_signal_check without the try block around the data
\* fetch
auto_signal_check_unguarded(answer) ==
    CASE answer = "fetch_raises" -> "raised"
      [] answer = "no_data" -> "skipped"
      [] answer = "generate_raises" -> "error"
      [] answer = "no_signal" -> "quiet"
      [] answer = "risk_raises" -> "error"
      [] answer = "unsafe" -> "quiet"
      [] answer = "safe" -> "await_send"

\* the body of `for pair in self.default_pairs' of _auto_signal_loop up to
\* its await: an exception is caught by the try block of the body
auto_signal_check(answer) ==
    CASE answer = "fetch_raises" -> "error"
      [] answer = "no_data" -> "skipped"
      [] answer = "generate_raises" -> "error"
      [] answer = "no_signal" -> "quiet"
      [] answer = "risk_raises" -> "error"
      [] answer = "unsafe" -> "quiet"
      [] answer = "safe" -> "await_send"

\* after `await send_message': the signal is saved, or the exception of the
\* notification or of save_signal is caught by the try block of the body
auto_signal_sent(answer) ==
    IF answer = "ok" THEN "notified" ELSE "error"

\* the instruments from the i-th on, until one awaits its notification
\* (awaiting is its index), the list ends (awaiting 0) or an exception
\* leaves the body for the handler of the while loop (awaiting -1)
RECURSIVE auto_signal_run(_, _, _)
auto_signal_run(answers, i, log) ==
    IF i > Len(default_pairs) THEN [log |-> log, awaiting |-> 0]
    ELSE LET step == auto_signal_check(answers[i])
         IN  IF step = "await_send" THEN [log |-> log, awaiting |-> i]
             ELSE IF step = "raised" THEN [log |-> log, awaiting |-> -1]
             ELSE auto_signal_run(answers, i + 1,
                                  Append(log, Step(default_pairs[i], step)))

\* the body of `for pair in self.default_pairs' of _hourly_status_loop
hourly_status_check(answer) ==
    CASE answer = "fetch_raises" -> "error"
      [] answer = "no_data" -> "skipped"
      [] answer = "generate_raises" -> "error"
      [] answer = "no_signal" -> "line"
      [] answer = "signal" -> "line"

hourly_status_run(answers) ==
    [i \in 1..Len(default_pairs) |->
        Step(default_pairs[i], hourly_status_check(answers[i]))]

\* what the instruments of one pass of _hourly_status_loop can do
HourlyStatusRuns ==
    {hourly_status_run(answers) :
        answers \in [1..Len(default_pairs) -> StatusAnswers]}

TaskIdle ==
    /\ cancel_requested = FALSE
    /\ auto_pc = "idle"
    /\ auto_at = 0
    /\ auto_progress = NoneV
    /\ auto_last = NoneV
    /\ status_pc = "idle"
    /\ status_progress = NoneV
    /\ status_last = NoneV
    /\ running = FALSE
    /\ learn_pc = "idle"
    /\ learn_updates = 0

\* TradingBot.start and main have created the three tasks; each is in its
\* first sleep
TaskInit ==
    /\ cancel_requested = FALSE
    /\ auto_pc = "sleeping"
    /\ auto_at = 0
    /\ auto_progress = NoneV
    /\ auto_last = NoneV
    /\ status_pc = "sleeping"
    /\ status_progress = NoneV
    /\ status_last = NoneV
    /\ running = TRUE
    /\ learn_pc = "sleeping"
    /\ learn_updates = 0

\* `if self.ensemble is None or self._notification_chat_id is None' puts the
\* task back to sleep
TasksReady ==
    bot_ensemble_set /\ notification_chat_id # NoneV

\* what _auto_signal_loop can do from the i-th instrument on
AutoSignalFrom ==
    [i \in 1..(Len(default_pairs) + 1) |->
        {auto_signal_run(answers, i, <<>>) :
            answers \in [1..Len(default_pairs) -> AutoAnswers]}]

\* _auto_signal_loop goes on after `log' with `run': to the await of a
\* notification, or to the sleep that ends the pass (after the loop, or from
\* the handler of the while loop when an exception left the body)
AutoSignalGoesOn(log, run) ==
    IF run.awaiting > 0
    THEN /\ auto_pc' = "sending"
         /\ auto_at' = run.awaiting
         /\ auto_progress' = [log |-> log \o run.log]
         /\ UNCHANGED auto_last
    ELSE /\ auto_pc' = "sleeping"
         /\ auto_at' = 0
         /\ auto_progress' = NoneV
         /\ auto_last' = PassSummary(log \o run.log)

\* the sleep of _auto_signal_loop ends and a pass starts
AutoSignalWakes ==
    /\ auto_pc = "sleeping"
    /\ ~cancel_requested
    /\ TasksReady
    /\ \E run \in AutoSignalFrom[1] : AutoSignalGoesOn(<<>>, run)
    /\ UNCHANGED <<cancel_requested, status_pc, status_progress, status_last,
                   running, learn_pc, learn_updates>>

\* `await self.application.bot.send_message' returns or raises; then
\* save_signal, and the remaining instruments
AutoSignalSent ==
    /\ auto_pc = "sending"
    /\ ~cancel_requested
    /\ \E sent \in SendAnswers :
           \E run \in AutoSignalFrom[auto_at + 1] :
               AutoSignalGoesOn(Append(auto_progress.log,
                                       Step(default_pairs[auto_at],
                                            auto_signal_sent(sent))),
                                run)
    /\ UNCHANGED <<cancel_requested, status_pc, status_progress, status_last,
                   running, learn_pc, learn_updates>>

\* CancelledError at the await of _auto_signal_loop, the sleep or the
\* notification: the handler of the body lets it pass, the handler of the
\* while loop breaks
AutoSignalCancelled ==
    /\ auto_pc \in {"sleeping", "sending"}
    /\ cancel_requested
    /\ auto_pc' = "terminated"
    /\ UNCHANGED <<cancel_requested, auto_at, auto_progress, auto_last, status_pc, status_progress, status_last, running, learn_pc, learn_updates>>

\* the sleep of _hourly_status_loop ends: every instrument, then the await
\* of the one status message
HourlyStatusWakes ==
    /\ status_pc = "sleeping"
    /\ ~cancel_requested
    /\ TasksReady
    /\ \E run \in HourlyStatusRuns : status_progress' = [log |-> run]
    /\ status_pc' = "sending"
    /\ UNCHANGED <<cancel_requested, auto_pc, auto_at, auto_progress, auto_last, status_last, running, learn_pc,
                   learn_updates>>

\* the status message is sent, or its exception reaches the handler of the
\* while loop; the task sleeps
HourlyStatusSent ==
    /\ status_pc = "sending"
    /\ ~cancel_requested
    /\ \E sent \in {"ok", "send_raises"} :
           status_last' = [PassSummary(status_progress.log) EXCEPT
                              !.errors = @ \/ sent = "send_raises"]
    /\ status_pc' = "sleeping"
    /\ status_progress' = NoneV
    /\ UNCHANGED <<cancel_requested, auto_pc, auto_at, auto_progress, auto_last, running, learn_pc, learn_updates>>

HourlyStatusCancelled ==
    /\ status_pc \in {"sleeping", "sending"}
    /\ cancel_requested
    /\ status_pc' = "terminated"
    /\ UNCHANGED <<cancel_requested, auto_pc, auto_at, auto_progress, auto_last, status_progress, status_last,
                   running, learn_pc, learn_updates>>

\* the sleep of LearningLoop.start ends: `while self.running' ends the task
\* or _update, which awaits nothing, runs and the task sleeps again
LearningWakes ==
    /\ learn_pc = "sleeping"
    /\ IF running
       THEN /\ learn_updates < MaxUpdates
            /\ learn_updates' = learn_updates + 1
            /\ UNCHANGED learn_pc
       ELSE /\ learn_pc' = "terminated"
            /\ UNCHANGED learn_updates
    /\ UNCHANGED <<cancel_requested, auto_pc, auto_at, auto_progress, auto_last, status_pc, status_progress, status_last, running>>

\* TradingBot.start on KeyboardInterrupt: cancel() on both tasks
CancelBotTasks ==
    /\ ~cancel_requested
    /\ cancel_requested' = TRUE
    /\ UNCHANGED <<auto_pc, auto_at, auto_progress, auto_last,
                   status_pc, status_progress, status_last,
                   running, learn_pc, learn_updates>>

\* LearningLoop.stop
StopLearning ==
    /\ running
    /\ running' = FALSE
    /\ UNCHANGED <<cancel_requested, auto_pc, auto_at, auto_progress, auto_last, status_pc, status_progress, status_last, learn_pc, learn_updates>>

(***************************************************************************)
(* Construction of the components.  A constructor yields the record of the *)
(* fields it assigns, or Raised(exception).                                *)
(***************************************************************************)
\* Config.validate on the values Config.__init__ read from the environment
Config_init(token_set, confidence, agreement, interval) ==
    IF \/ ~token_set
       \/ FLt(confidence, FInt(0)) \/ FGt(confidence, FInt(100))
       \/ FLt(agreement, FInt(0)) \/ FGt(agreement, FInt(1))
       \/ interval < 60
    THEN Raised("ValueError")
    ELSE [MIN_CONFIDENCE_THRESHOLD |-> confidence,
          MIN_AGREEMENT_THRESHOLD |-> agreement,
          AUTO_SIGNAL_INTERVAL |-> interval]

EnsembleSignalGenerator_init(agreement, confidence) ==
    [min_agreement |-> agreement, min_confidence |-> confidence]

WalkForwardOptimizer_init(train, validation, step, periods) ==
    [train_period_days |-> train, validation_period_days |-> validation,
     step_days |-> step, min_periods |-> periods]

DriftDetector_init(threshold, min_trades, cooldown) ==
    [drift_threshold |-> threshold, min_trades_for_detection |-> min_trades,
     alert_cooldown_hours |-> cooldown, last_alert_time |-> <<>>]

CorrelationManager_init(threshold, per_currency, lookback) ==
    [correlation_threshold |-> threshold,
     max_positions_per_currency |-> per_currency,
     lookback_periods |-> lookback, active_positions |-> {}]

\* in the range 0..1, at its ends, and on either side of it
UnitChoices ==
    {Frac(-1, 10), FInt(0), Frac(7, 10), FInt(1), Frac(3, 2)}

\* in the range 0..100, at its ends, and on either side of it
PercentChoices ==
    {FInt(-1), FInt(0), FInt(80), FInt(100), FInt(101)}

DayChoices ==
    {-90, 0, 90}

InUnit(value) ==
    FGe(value, FInt(0)) /\ ~FGt(value, FInt(1))

InPercent(value) ==
    FGe(value, FInt(0)) /\ ~FGt(value, FInt(100))

BuildIdle ==
    /\ built_kind = "none"
    /\ built_args = NoneV
    /\ built = NoneV

BuildInit ==
    BuildIdle

Built(kind, args, object) ==
    /\ built_kind' = kind
    /\ built_args' = args
    /\ built' = object

BuildConfig ==
    \E token_set \in BOOLEAN, confidence \in PercentChoices, agreement \in UnitChoices, interval \in {59, 60} :
        Built("Config",
              [token_set |-> token_set, confidence |-> confidence,
               agreement |-> agreement, interval |-> interval],
              Config_init(token_set, confidence, agreement, interval))

BuildEnsemble ==
    \E agreement \in UnitChoices, confidence \in PercentChoices :
        Built("EnsembleSignalGenerator",
              [agreement |-> agreement, confidence |-> confidence],
              EnsembleSignalGenerator_init(agreement, confidence))

BuildWalkForward ==
    \E train \in DayChoices, validation \in DayChoices, step \in DayChoices :
        Built("WalkForwardOptimizer",
              [train |-> train, validation |-> validation, step |-> step],
              WalkForwardOptimizer_init(train, validation, step, 3))

BuildDriftDetector ==
    \E threshold \in UnitChoices :
        Built("DriftDetector", [threshold |-> threshold],
              DriftDetector_init(threshold, DefaultMinTradesForDetection,
                                 DefaultAlertCooldownHours))

BuildCorrelationManager ==
    \E threshold \in UnitChoices :
        Built("CorrelationManager", [threshold |-> threshold],
              CorrelationManager_init(threshold, 1, 100))

(***************************************************************************)
(* Strategy Generator                                                      *)
(* What numpy's generator draws for one strategy is an input: the type,    *)
(* the seed of the identifier and the period of the family.  The first     *)
(* eight hexadecimal digits of the MD5 digest are kept as the text that    *)
(* was digested, so different texts have different digests.                *)
(***************************************************************************)
\* strategies generated in all
MaxGenerated ==
    3

StrategyTypes ==
    {"ema_cross", "rsi_reversal"}

\* np.random.randint(0, 1000000)
SeedChoices ==
    {0, 999999}

\* np.random.randint(5, 25) and np.random.randint(10, 20)
PeriodChoices ==
    [ema_cross |-> {5, 24}, rsi_reversal |-> {10, 19}]

Draws ==
    {[strategy_type |-> t, seed |-> seed, period |-> period] :
        t \in StrategyTypes, seed \in SeedChoices,
        period \in UNION {PeriodChoices[f] : f \in StrategyTypes}}

Draw ==
    {draw \in Draws : draw.period \in PeriodChoices[draw.strategy_type]}

\* f"{strategy_type}_{md5(strategy_type + '_' + json.dumps(params))[:8]}"
generate_id(strategy_type, params) ==
    <<strategy_type, "_", <<strategy_type, "_", params>>>>

create_ema_cross_strategy(strategy_id, draw) ==
    Strategy(strategy_id, <<"ema", "cross", draw.period, 30>>, <<"crossover">>,
             [fast_ema |-> draw.period, slow_ema |-> 30,
              risk_reward_ratio |-> FInt(2)],
             [opposite_cross |-> TRUE])

create_rsi_reversal_strategy(strategy_id, draw) ==
    Strategy(strategy_id, <<"rsi", "reversal", draw.period>>, <<"reversal">>,
             [rsi_period |-> draw.period, oversold |-> FInt(30),
              overbought |-> FInt(70), risk_reward_ratio |-> FInt(2)],
             [rsi_extreme |-> TRUE])

create_strategy(draw) ==
    LET params == [type |-> draw.strategy_type, seed |-> draw.seed]
        strategy_id == generate_id(draw.strategy_type, params)
    IN  IF draw.strategy_type = "ema_cross"
        THEN create_ema_cross_strategy(strategy_id, draw)
        ELSE create_rsi_reversal_strategy(strategy_id, draw)

\* generate_batch returns the strategies of range(num_strategies): none when
\* num_strategies is zero or negative
generate_batch(num_strategies, draws) ==
    [i \in 1..num_strategies |-> create_strategy(draws[i])]

GenIdle ==
    /\ generated_strategies = <<>>
    /\ gen_n = 0
    /\ gen_before = <<>>
    /\ gen_out = NoneV

GenInit ==
    GenIdle

GenerateBatch ==
    \E num_strategies \in -1..MaxGenerated :
        /\ Len(generated_strategies) + num_strategies <= MaxGenerated
        /\ \E draws \in [1..num_strategies -> Draw] :
               \E batch \in {generate_batch(num_strategies, draws)} :
                   /\ generated_strategies' = generated_strategies \o batch
                   /\ gen_out' = [returned |-> batch]
        /\ gen_n' = num_strategies
        /\ gen_before' = generated_strategies

(***************************************************************************)
(* Alert cooldown of the Drift Monitor.  Times are whole hours of the UTC  *)
(* clock; last_alert_time is a function on the strategies that were        *)
(* marked.                                                                 *)
(***************************************************************************)
\* hours the clock runs
MaxClock ==
    26

AlertStrategies ==
    {"strategy_1", "strategy_2"}

CooldownChoices ==
    {0, 2, DefaultAlertCooldownHours}

\* the answer `time_since_last > cooldown'
should_send_alert_after(alerts, strategy_id, now, cooldown_hours) ==
    IF strategy_id \notin DOMAIN alerts THEN TRUE
    ELSE now - alerts[strategy_id] > cooldown_hours

should_send_alert(alerts, strategy_id, now, cooldown_hours) ==
    IF strategy_id \notin DOMAIN alerts THEN TRUE
    ELSE now - alerts[strategy_id] >= cooldown_hours

\* self.last_alert_time[strategy_id] = datetime.utcnow()
mark_alert_sent(alerts, strategy_id, now) ==
    [s \in DOMAIN alerts \cup {strategy_id} |->
        IF s = strategy_id THEN now ELSE alerts[s]]

AlertIdle ==
    /\ alert_cooldown_hours = DefaultAlertCooldownHours
    /\ last_alert_time = <<>>
    /\ alert_now = 0
    /\ alert_marked_at = <<>>
    /\ alert_answer = NoneV

AlertInit ==
    /\ alert_cooldown_hours \in CooldownChoices
    /\ last_alert_time = <<>>
    /\ alert_now = 0
    /\ alert_marked_at = [s \in AlertStrategies |-> -1]
    /\ alert_answer = NoneV

\* an hour passes
AlertClockTick ==
    /\ alert_now < MaxClock
    /\ alert_now' = alert_now + 1
    /\ alert_answer' = NoneV
    /\ UNCHANGED <<alert_cooldown_hours, last_alert_time, alert_marked_at>>

MarkAlertSent ==
    \E strategy_id \in AlertStrategies :
        /\ last_alert_time' =
               mark_alert_sent(last_alert_time, strategy_id, alert_now)
        /\ alert_marked_at' = [alert_marked_at EXCEPT ![strategy_id] = alert_now]
        /\ alert_answer' = NoneV
        /\ UNCHANGED <<alert_cooldown_hours, alert_now>>

ShouldSendAlert ==
    \E strategy_id \in AlertStrategies :
        /\ alert_answer' =
               [strategy |-> strategy_id,
                answer |-> should_send_alert(last_alert_time, strategy_id,
                                             alert_now, alert_cooldown_hours)]
        /\ UNCHANGED <<alert_cooldown_hours, last_alert_time, alert_now,
                       alert_marked_at>>

(***************************************************************************)
(* Correlation Manager: conflict check and signal filter                   *)
(* existing_positions is NoneV for None and [list |-> positions] for a     *)
(* list.                                                                   *)
(***************************************************************************)
\* filter_signal_by_correlation: None on a conflict, else the signal with
\* its correlation_check; conflict['max_correlation'] raises KeyError when
\* the result of the check has no such key
filter_signal_by_correlation(signal, existing_positions, threshold, per_currency) ==
    LET positions == IF existing_positions = NoneV THEN <<>>
                     ELSE existing_positions.list
        conflict == check_correlation_conflict(signal.pair, signal.direction,
                                               positions, threshold, per_currency)
    IN  IF conflict.has_conflict THEN NoneV
        ELSE IF "max_correlation" \notin DOMAIN conflict THEN Raised("KeyError")
        ELSE [signal EXCEPT !.correlation_check =
                 [passed |-> TRUE, max_correlation |-> conflict.max_correlation,
                  existing_positions_count |-> Len(positions)]]

ConflictPairs ==
    {<<"EUR", "USD">>, <<"GBP", "USD">>, <<"USD", "JPY">>, <<"EUR", "GBP">>}

ConflictPositions ==
    {Position(pair, direction) : pair \in ConflictPairs, direction \in {"buy", "sell"}}

\* a signal as far as the filter reads and writes it
ConflictSignals ==
    {[pair |-> pair, direction |-> direction, correlation_check |-> NoneV] :
        pair \in {<<"EUR", "USD">>, <<"USD", "JPY">>}, direction \in {"buy", "sell"}}

ConflictIdle ==
    /\ manager_correlation_threshold = CorrelationThreshold
    /\ manager_max_positions = MaxPositionsPerCurrency
    /\ conflict_in = NoneV
    /\ conflict_pc = "idle"
    /\ conflict_out = NoneV
    /\ filter_out = NoneV

ConflictInit ==
    /\ manager_correlation_threshold \in {CorrelationThreshold, 80}
    /\ manager_max_positions \in {MaxPositionsPerCurrency, 2}
    /\ \E signal \in ConflictSignals,
          existing_positions \in {[list |-> l] : l \in SeqsUpTo(ConflictPositions, MaxPositions)} \cup {NoneV} :
          conflict_in = [signal |-> signal, existing_positions |-> existing_positions]
    /\ conflict_pc = "ready"
    /\ conflict_out = NoneV
    /\ filter_out = NoneV

\* one call of check_correlation_conflict
CheckCorrelationConflict ==
    /\ conflict_pc = "ready"
    /\ conflict_out' =
           check_correlation_conflict(
               conflict_in.signal.pair, conflict_in.signal.direction,
               IF conflict_in.existing_positions = NoneV THEN <<>>
               ELSE conflict_in.existing_positions.list,
               manager_correlation_threshold, manager_max_positions)
    /\ conflict_pc' = "checked"
    /\ UNCHANGED <<manager_correlation_threshold, manager_max_positions,
                   conflict_in, filter_out>>

\* one call of filter_signal_by_correlation
FilterSignalByCorrelation ==
    /\ conflict_pc = "checked"
    /\ filter_out' =
           [returned |-> filter_signal_by_correlation(
                             conflict_in.signal, conflict_in.existing_positions,
                             manager_correlation_threshold, manager_max_positions)]
    /\ conflict_pc' = "done"
    /\ UNCHANGED <<manager_correlation_threshold, manager_max_positions,
                   conflict_in, conflict_out>>

(***************************************************************************)
(* Trend Filter: trend detection and the calls of the filter               *)
(* A data frame is NoneV (None) or [bars, sma_short, sma_long, close]: its *)
(* length and, of its last 50 bars, the last 10-bar and 30-bar mean of the *)
(* close and the last close.  The frames are chosen so that the strength   *)
(* in hundredths is a whole number.                                        *)
(***************************************************************************)
MinTrendBars ==
    50

\* the strength of a trend, not capped at 1.0
trend_strength_uncapped(sma_short_val, sma_long_val) ==
    (Abs(sma_short_val - sma_long_val) * 10000) \div sma_long_val

\* min(1.0, abs(sma_short_val - sma_long_val) / sma_long_val * 100), in
\* hundredths
trend_strength(sma_short_val, sma_long_val) ==
    MinInt(100, (Abs(sma_short_val - sma_long_val) * 10000) \div sma_long_val)

detect_trend(data) ==
    IF data.bars = 0 \/ data.bars < MinTrendBars THEN Trend("neutral", 0)
    ELSE IF data.sma_short > data.sma_long /\ data.close > data.sma_short
    THEN Trend("bullish", trend_strength(data.sma_short, data.sma_long))
    ELSE IF data.sma_short < data.sma_long /\ data.close < data.sma_short
    THEN Trend("bearish", trend_strength(data.sma_short, data.sma_long))
    ELSE Trend("neutral", 30)

\* the trends dictionary of check_multi_timeframe_trend: 1h always, 4h and
\* 1d when the frame is given and not empty
detect_trends(data_1h, data_4h, data_1d) ==
    LET Given(data) == data # NoneV /\ data.bars # 0
        present == {"1h"} \cup (IF Given(data_4h) THEN {"4h"} ELSE {})
                          \cup (IF Given(data_1d) THEN {"1d"} ELSE {})
    IN  [tf \in present |->
            detect_trend(IF tf = "1h" THEN data_1h
                         ELSE IF tf = "4h" THEN data_4h ELSE data_1d)]

TrendFrame(bars, sma_short, sma_long, close) ==
    [bars |-> bars, sma_short |-> sma_short, sma_long |-> sma_long, close |-> close]

TrendFrames ==
    {TrendFrame(0, 0, 0, 0),
     TrendFrame(49, 1020, 1000, 1021),
     TrendFrame(50, 1020, 1000, 1021),
     TrendFrame(50, 1005, 1000, 1006),
     TrendFrame(50, 990, 1000, 989),
     TrendFrame(50, 995, 1000, 994),
     TrendFrame(50, 1005, 1000, 1004)}

\* a signal as far as the filter reads and writes it
TrendSignals ==
    {[direction |-> direction, confidence |-> FInt(confidence),
      trend_aligned |-> FALSE, trend_strength |-> FInt(0)] :
        direction \in {"buy", "sell"}, confidence \in {80, 97, 100}}

TrendIdle ==
    /\ tf_min_alignment = MinTimeframeAlignment
    /\ tf_strength_threshold = TrendStrengthThreshold
    /\ tf_in = NoneV
    /\ tf_pc = "idle"
    /\ tf_alignment = NoneV
    /\ tf_out = NoneV

TrendInit ==
    /\ tf_min_alignment \in {1, MinTimeframeAlignment, 3}
    /\ tf_strength_threshold \in {TrendStrengthThreshold, Frac(2, 10)}
    /\ \E signal \in TrendSignals, data_1h \in TrendFrames,
          data_4h \in TrendFrames \cup {NoneV}, data_1d \in TrendFrames \cup {NoneV} :
          tf_in = [signal |-> signal, data_1h |-> data_1h, data_4h |-> data_4h,
                   data_1d |-> data_1d]
    /\ tf_pc = "ready"
    /\ tf_alignment = NoneV
    /\ tf_out = NoneV

\* one call of check_multi_timeframe_trend
CheckMultiTimeframeTrend ==
    /\ tf_pc = "ready"
    /\ tf_alignment' =
           check_multi_timeframe_trend(
               detect_trends(tf_in.data_1h, tf_in.data_4h, tf_in.data_1d),
               tf_min_alignment, tf_strength_threshold)
    /\ tf_pc' = "checked"
    /\ UNCHANGED <<tf_min_alignment, tf_strength_threshold, tf_in, tf_out>>

\* one call of filter_signal_by_trend on that result
FilterSignalByTrend ==
    /\ tf_pc = "checked"
    /\ tf_out' = [returned |-> filter_signal_by_trend(tf_in.signal, tf_alignment)]
    /\ tf_pc' = "done"
    /\ UNCHANGED <<tf_min_alignment, tf_strength_threshold, tf_in, tf_alignment>>

(***************************************************************************)
(* Regime filter over the strategy catalog.  A catalog strategy carries    *)
(* the entry_conditions type its _create_* method writes.                  *)
(***************************************************************************)
\* strategies handed to one filter_strategies_by_regime call
MaxCatalog ==
    2

\* the families of StrategyGenerator.strategy_types
CatalogFamilies ==
    {"ema_cross", "rsi_reversal", "macd_divergence", "bollinger_breakout",
     "ichimoku_trend", "support_resistance", "volume_breakout", "atr_range",
     "multi_indicator"}

\* entry_conditions['type'] as each _create_* method sets it
entry_condition_type ==
    [ema_cross |-> <<"crossover">>, rsi_reversal |-> <<"reversal">>,
     macd_divergence |-> <<"macd", "cross">>,
     bollinger_breakout |-> <<"breakout">>, ichimoku_trend |-> <<"ichimoku">>,
     support_resistance |-> <<"sr", "bounce">>,
     volume_breakout |-> <<"volume", "breakout">>,
     atr_range |-> <<"atr", "range">>,
     multi_indicator |-> <<"multi", "indicator">>]

\* the strategy the catalog creates for a family
CatalogStrategy(family) ==
    Strategy(generate_id(family, [type |-> family, seed |-> 0]),
             <<family>>, entry_condition_type[family], <<>>, <<>>)

\* the cutoff generate_signal passes, one below and one above
CutoffChoices ==
    {EnsembleMinCompatibility - 1, EnsembleMinCompatibility,
     EnsembleMinCompatibility + 2}

RegimeFilterIdle ==
    /\ rf_families = <<>>
    /\ rf_regime = "ranging"
    /\ rf_min_compatibility = EnsembleMinCompatibility
    /\ rf_pc = "idle"
    /\ rf_out = NoneV

RegimeFilterInit ==
    /\ rf_families \in SeqsUpTo(CatalogFamilies, MaxCatalog)
    /\ rf_regime \in REGIME_TYPES
    /\ rf_min_compatibility \in CutoffChoices
    /\ rf_pc = "ready"
    /\ rf_out = NoneV

\* compatible = detector.filter_strategies_by_regime(strategies, regime,
\* min_compatibility)
FilterStrategiesByRegime ==
    /\ rf_pc = "ready"
    /\ rf_out' = [returned |->
                     filter_strategies_by_regime(
                         MapField(rf_families, CatalogStrategy),
                         rf_regime, rf_min_compatibility)]
    /\ rf_pc' = "done"
    /\ UNCHANGED <<rf_families, rf_regime, rf_min_compatibility>>

(***************************************************************************)
(* Backtest Engine: the walk of _execute_trades over a signal frame, one   *)
(* row of signals.iterrows() at a time.  The frame is one a percent-level  *)
(* family writes: the entry at the close, the stop and the target a        *)
(* percentage away.                                                        *)
(***************************************************************************)
\* rows of the signal frame
MaxSignalRows ==
    3

WalkCloses ==
    {FInt(9900), FInt(10010), FInt(10100)}

WalkExits ==
    {TightExits, [stop_loss_pct |-> DefaultStopLossPct, take_profit_pct |-> DefaultTakeProfitPct]}

\* the frames of up to MaxSignalRows rows
WalkFrames ==
    UNION {{PercentLevels([i \in 1..n |-> [close |-> close[i]]], signal,
                          exits.stop_loss_pct, exits.take_profit_pct) :
               close \in [1..n -> WalkCloses], signal \in [1..n -> {-1, 0, 1}],
               exits \in WalkExits} :
        n \in 0..MaxSignalRows}

WalkStrategy ==
    Strategy("strategy_1", <<"ema", "cross", "1", "3">>, <<"crossover">>, [fast_ema |-> 1, slow_ema |-> 3], TightExits)

WalkIdle ==
    /\ ex_signals = <<>>
    /\ ex_costs = NoneV
    /\ ex_i = 0
    /\ ex_state = NoneV
    /\ ex_pc = "idle"
    /\ ex_out = NoneV

\* trades = []; position = None
WalkInit ==
    /\ ex_signals \in WalkFrames
    /\ ex_costs \in CostChoices
    /\ ex_i = 0
    /\ ex_state = [trades |-> <<>>, position |-> NoneV]
    /\ ex_pc = "walking"
    /\ ex_out = NoneV

\* one pass of `for idx, row in signals.iterrows()'
ExecuteRow ==
    /\ ex_pc = "walking"
    /\ ex_i < Len(ex_signals)
    /\ ex_state' = execute_row(ex_state, ex_signals[ex_i + 1], ex_i + 1,
                               WalkStrategy, ex_costs.slippage, ex_costs.spread)
    /\ ex_i' = ex_i + 1
    /\ UNCHANGED <<ex_signals, ex_costs, ex_pc, ex_out>>

\* the loop is over: a position still open is closed at the last close and
\* the trades are returned
ExecuteReturn ==
    /\ ex_pc = "walking"
    /\ ex_i = Len(ex_signals)
    /\ ex_out' = [returned |->
                     IF ex_state.position # NoneV
                     THEN Append(ex_state.trades,
                                 ClosedTrade(ex_state.position,
                                             ex_signals[Len(ex_signals)].close,
                                             Len(ex_signals),
                                             ex_costs.slippage, ex_costs.spread))
                     ELSE ex_state.trades]
    /\ ex_pc' = "done"
    /\ UNCHANGED <<ex_signals, ex_costs, ex_i, ex_state>>

(***************************************************************************)
(* Walk-forward windows.  Time runs in bar slots: the frame has one row    *)
(* per slot from slot 0 on, bars_per_day slots make a day, and the         *)
(* timestamps of the loop are slots.                                       *)
(***************************************************************************)
\* windows one generate_windows call collects
MaxPeriods ==
    4

\* len(train_data) > 100 and len(validation_data) > 20
MinTrainRows ==
    100

MinValidationRows ==
    20

\* a daily and an hourly frame
BarsPerDayChoices ==
    {1, 24}

FrameRowChoices ==
    {0, 10, 144, 192}

\* what WalkForwardOptimizer.__init__ takes: it checks nothing
WindowConfigChoices ==
    {WalkForwardOptimizer_init(train, validation, step, 3) :
        train \in {4, 5}, validation \in {0, 1}, step \in {0, 1, 2}}

\* data[(data.index >= first) & (data.index < last)]
RowsBetween(data, first, last) ==
    {t \in 0..(data.rows - 1) : first <= t /\ t < last}

\* the four timestamps of the window that starts at current_train_start
WindowAt(config, data, current_train_start) ==
    LET current_train_end ==
            current_train_start + config.train_period_days * data.bars_per_day
        current_validation_start == current_train_end
        current_validation_end ==
            current_validation_start
                + config.validation_period_days * data.bars_per_day
    IN  [train_data |-> RowsBetween(data, current_train_start, current_train_end),
         validation_data |-> RowsBetween(data, current_validation_start, current_validation_end),
         train_start |-> current_train_start,
         train_end |-> current_train_end,
         validation_start |-> current_validation_start,
         validation_end |-> current_validation_end]

WindowsIdle ==
    /\ gw_config = NoneV
    /\ gw_data = NoneV
    /\ gw_start = 0
    /\ gw_windows = <<>>
    /\ gw_pc = "idle"
    /\ gw_out = NoneV

WindowsInit ==
    /\ gw_config \in WindowConfigChoices
    /\ gw_data \in [bars_per_day : BarsPerDayChoices, rows : FrameRowChoices]
    /\ gw_start = 0
    /\ gw_windows = <<>>
    /\ gw_pc = "ready"
    /\ gw_out = NoneV

\* generate_windows up to the loop: too short a frame returns [] at once
GenerateWindowsEnter ==
    /\ gw_pc = "ready"
    /\ IF gw_data.rows = 0
          \/ gw_data.rows < gw_config.train_period_days + gw_config.validation_period_days
       THEN /\ gw_out' = [returned |-> <<>>]
            /\ gw_pc' = "done"
       ELSE /\ gw_pc' = "test"
            /\ UNCHANGED gw_out
    /\ UNCHANGED <<gw_config, gw_data, gw_start, gw_windows>>

\* `while current_validation_end <= end_date' is true: the body is entered
GenerateWindowsTest ==
    /\ gw_pc = "test"
    /\ WindowAt(gw_config, gw_data, gw_start).validation_end <= gw_data.rows - 1
    /\ gw_pc' = "body"
    /\ UNCHANGED <<gw_config, gw_data, gw_start, gw_windows, gw_out>>

\* the body of the loop: the window is kept if both halves hold enough
\* rows, and the start moves on by step_days
GenerateWindowsStep ==
    /\ gw_pc = "body"
    /\ LET window == WindowAt(gw_config, gw_data, gw_start)
       IN  gw_windows' =
               IF /\ Cardinality(window.train_data) > MinTrainRows
                  /\ Cardinality(window.validation_data) > MinValidationRows
                  /\ Len(gw_windows) < MaxPeriods
               THEN Append(gw_windows, window)
               ELSE gw_windows
    /\ gw_start' = gw_start + gw_config.step_days * gw_data.bars_per_day
    /\ gw_pc' = "test"
    /\ UNCHANGED <<gw_config, gw_data, gw_out>>

\* the loop is left and the windows are returned
GenerateWindowsReturn ==
    /\ gw_pc = "test"
    /\ WindowAt(gw_config, gw_data, gw_start).validation_end > gw_data.rows - 1
    /\ gw_out' = [returned |-> gw_windows]
    /\ gw_pc' = "done"
    /\ UNCHANGED <<gw_config, gw_data, gw_start, gw_windows>>

(***************************************************************************)
(* Specifications                                                          *)
(***************************************************************************)
InitEnsemble ==
    EnsInit /\ RiskIdle /\ BotIdle /\ BtIdle /\ MetIdle /\ WfIdle /\ RegIdle /\ DriftIdle /\ CorrIdle /\ BatchIdle /\ TaskIdle /\ BuildIdle /\ GenIdle /\ AlertIdle /\ ConflictIdle /\ TrendIdle /\ RegimeFilterIdle /\ WalkIdle /\ WindowsIdle

NextEnsemble ==
    EnsNext /\ UNCHANGED <<riskVars, botVars, btVars, metVars, wfVars, regVars, driftVars, corrVars, batchVars, taskVars, buildVars, genVars, alertVars, conflictVars, trendVars, regimeFilterVars, walkVars, windowVars>>

SpecEnsemble ==
    InitEnsemble /\ [][NextEnsemble]_vars

InitRisk ==
    RiskInit /\ EnsIdle /\ BotIdle /\ BtIdle /\ MetIdle /\ WfIdle /\ RegIdle /\ DriftIdle /\ CorrIdle /\ BatchIdle /\ TaskIdle /\ BuildIdle /\ GenIdle /\ AlertIdle /\ ConflictIdle /\ TrendIdle /\ RegimeFilterIdle /\ WalkIdle /\ WindowsIdle

NextRisk ==
    RiskNext /\ UNCHANGED <<ensVars, botVars, btVars, metVars, wfVars, regVars, driftVars, corrVars, batchVars, taskVars, buildVars, genVars, alertVars, conflictVars, trendVars, regimeFilterVars, walkVars, windowVars>>

SpecRisk ==
    InitRisk /\ [][NextRisk]_vars

\* the bot with the ensemble of main.py (0.80 / 80.0, both filters on) and
\* its own RiskManager
InitBot ==
    /\ BotInit
    /\ RiskIdle
    /\ BtIdle
    /\ MetIdle
    /\ WfIdle
    /\ RegIdle
    /\ DriftIdle
    /\ CorrIdle
    /\ BatchIdle
    /\ TaskIdle
    /\ BuildIdle
    /\ GenIdle
    /\ AlertIdle
    /\ ConflictIdle
    /\ TrendIdle
    /\ RegimeFilterIdle
    /\ WalkIdle
    /\ WindowsIdle
    /\ strategies = BotStrategies
    /\ min_agreement = Frac(4, 5)
    /\ min_confidence = FInt(80)
    /\ use_regime_filter = TRUE
    /\ use_trend_filter = TRUE
    /\ ens_in = NoneV
    /\ ens_pc = "idle"
    /\ ens_locals = NoLocals
    /\ ens_signal = NoneV

NextBot ==
    \/ SetEnsemble /\ UNCHANGED <<ensVars, riskVars, btVars, metVars, wfVars, regVars, driftVars, corrVars, batchVars, taskVars, buildVars, genVars, alertVars, conflictVars, trendVars, regimeFilterVars, walkVars, windowVars>>
    \/ SignalCommand /\ UNCHANGED <<ensVars, riskVars, btVars, metVars, wfVars, regVars, driftVars, corrVars, batchVars, taskVars, buildVars, genVars, alertVars, conflictVars, trendVars, regimeFilterVars, walkVars, windowVars>>
    \/ StatusCommand /\ UNCHANGED <<ensVars, riskVars, btVars, metVars, wfVars, regVars, driftVars, corrVars, batchVars, taskVars, buildVars, genVars, alertVars, conflictVars, trendVars, regimeFilterVars, walkVars, windowVars>>
    \/ AutoSignalPass /\ UNCHANGED <<ensVars, riskVars, btVars, metVars, wfVars, regVars, driftVars, corrVars, batchVars, taskVars, buildVars, genVars, alertVars, conflictVars, trendVars, regimeFilterVars, walkVars, windowVars>>
    \/ HourlyStatusPass /\ UNCHANGED <<ensVars, riskVars, btVars, metVars, wfVars, regVars, driftVars, corrVars, batchVars, taskVars, buildVars, genVars, alertVars, conflictVars, trendVars, regimeFilterVars, walkVars, windowVars>>

SpecBot ==
    InitBot /\ [][NextBot]_vars

InitBacktest ==
    BtInit /\ EnsIdle /\ RiskIdle /\ BotIdle /\ MetIdle /\ WfIdle /\ RegIdle /\ DriftIdle /\ CorrIdle /\ BatchIdle /\ TaskIdle /\ BuildIdle /\ GenIdle /\ AlertIdle /\ ConflictIdle /\ TrendIdle /\ RegimeFilterIdle /\ WalkIdle /\ WindowsIdle

NextBacktest ==
    \/ BuildEngine /\ UNCHANGED <<ensVars, riskVars, botVars, metVars, wfVars, regVars, driftVars, corrVars, batchVars, taskVars, buildVars, genVars, alertVars, conflictVars, trendVars, regimeFilterVars, walkVars, windowVars>>
    \/ RunBacktest /\ UNCHANGED <<ensVars, riskVars, botVars, metVars, wfVars, regVars, driftVars, corrVars, batchVars, taskVars, buildVars, genVars, alertVars, conflictVars, trendVars, regimeFilterVars, walkVars, windowVars>>

SpecBacktest ==
    InitBacktest /\ [][NextBacktest]_vars

InitMetrics ==
    MetInit /\ EnsIdle /\ RiskIdle /\ BotIdle /\ BtIdle /\ WfIdle /\ RegIdle /\ DriftIdle /\ CorrIdle /\ BatchIdle /\ TaskIdle /\ BuildIdle /\ GenIdle /\ AlertIdle /\ ConflictIdle /\ TrendIdle /\ RegimeFilterIdle /\ WalkIdle /\ WindowsIdle

NextMetrics ==
    CalculateMetrics /\ UNCHANGED <<ensVars, riskVars, botVars, btVars, wfVars, regVars, driftVars, corrVars, batchVars, taskVars, buildVars, genVars, alertVars, conflictVars, trendVars, regimeFilterVars, walkVars, windowVars>>

SpecMetrics ==
    InitMetrics /\ [][NextMetrics]_vars

InitWalkForward ==
    WfInit /\ EnsIdle /\ RiskIdle /\ BotIdle /\ BtIdle /\ MetIdle /\ RegIdle /\ DriftIdle /\ CorrIdle /\ BatchIdle /\ TaskIdle /\ BuildIdle /\ GenIdle /\ AlertIdle /\ ConflictIdle /\ TrendIdle /\ RegimeFilterIdle /\ WalkIdle /\ WindowsIdle

NextWalkForward ==
    WalkForwardBacktest /\ UNCHANGED <<ensVars, riskVars, botVars, btVars, metVars, regVars, driftVars, corrVars, batchVars, taskVars, buildVars, genVars, alertVars, conflictVars, trendVars, regimeFilterVars, walkVars, windowVars>>

SpecWalkForward ==
    InitWalkForward /\ [][NextWalkForward]_vars

InitRegime ==
    RegInit /\ EnsIdle /\ RiskIdle /\ BotIdle /\ BtIdle /\ MetIdle /\ WfIdle /\ DriftIdle /\ CorrIdle /\ BatchIdle /\ TaskIdle /\ BuildIdle /\ GenIdle /\ AlertIdle /\ ConflictIdle /\ TrendIdle /\ RegimeFilterIdle /\ WalkIdle /\ WindowsIdle

NextRegime ==
    DetectRegime /\ UNCHANGED <<ensVars, riskVars, botVars, btVars, metVars, wfVars, driftVars, corrVars, batchVars, taskVars, buildVars, genVars, alertVars, conflictVars, trendVars, regimeFilterVars, walkVars, windowVars>>

SpecRegime ==
    InitRegime /\ [][NextRegime]_vars

InitDrift ==
    DriftInit /\ EnsIdle /\ RiskIdle /\ BotIdle /\ BtIdle /\ MetIdle /\ WfIdle /\ RegIdle /\ CorrIdle /\ BatchIdle /\ TaskIdle /\ BuildIdle /\ GenIdle /\ AlertIdle /\ ConflictIdle /\ TrendIdle /\ RegimeFilterIdle /\ WalkIdle /\ WindowsIdle

NextDrift ==
    DetectPerformanceDrift /\ UNCHANGED <<ensVars, riskVars, botVars, btVars, metVars, wfVars, regVars, corrVars, batchVars, taskVars, buildVars, genVars, alertVars, conflictVars, trendVars, regimeFilterVars, walkVars, windowVars>>

SpecDrift ==
    InitDrift /\ [][NextDrift]_vars

InitCorrelation ==
    CorrInit /\ EnsIdle /\ RiskIdle /\ BotIdle /\ BtIdle /\ MetIdle /\ WfIdle /\ RegIdle /\ DriftIdle /\ BatchIdle /\ TaskIdle /\ BuildIdle /\ GenIdle /\ AlertIdle /\ ConflictIdle /\ TrendIdle /\ RegimeFilterIdle /\ WalkIdle /\ WindowsIdle

NextCorrelation ==
    CalculateCorrelation /\ UNCHANGED <<ensVars, riskVars, botVars, btVars, metVars, wfVars, regVars, driftVars, batchVars, taskVars, buildVars, genVars, alertVars, conflictVars, trendVars, regimeFilterVars, walkVars, windowVars>>

SpecCorrelation ==
    InitCorrelation /\ [][NextCorrelation]_vars

InitBatch ==
    BatchInit /\ EnsIdle /\ RiskIdle /\ BotIdle /\ BtIdle /\ MetIdle /\ WfIdle /\ RegIdle /\ DriftIdle /\ CorrIdle /\ TaskIdle /\ BuildIdle /\ GenIdle /\ AlertIdle /\ ConflictIdle /\ TrendIdle /\ RegimeFilterIdle /\ WalkIdle /\ WindowsIdle

NextBatch ==
    \/ BacktestNextStrategy /\ UNCHANGED <<ensVars, riskVars, botVars, btVars, metVars, wfVars, regVars, driftVars, corrVars, taskVars, buildVars, genVars, alertVars, conflictVars, trendVars, regimeFilterVars, walkVars, windowVars>>
    \/ FinishBatch /\ UNCHANGED <<ensVars, riskVars, botVars, btVars, metVars, wfVars, regVars, driftVars, corrVars, taskVars, buildVars, genVars, alertVars, conflictVars, trendVars, regimeFilterVars, walkVars, windowVars>>

SpecBatch ==
    InitBatch /\ [][NextBatch]_vars

InitTasks ==
    /\ TaskInit
    /\ RiskIdle
    /\ BtIdle
    /\ MetIdle
    /\ WfIdle
    /\ RegIdle
    /\ DriftIdle
    /\ CorrIdle
    /\ BatchIdle
    /\ EnsIdle
    /\ BuildIdle
    /\ GenIdle
    /\ AlertIdle
    /\ ConflictIdle
    /\ TrendIdle
    /\ RegimeFilterIdle
    /\ WalkIdle
    /\ WindowsIdle
    /\ bot_ensemble_set = TRUE
    /\ notification_chat_id \in {NoneV, EffectiveChat}
    /\ market = <<>>
    /\ bot_now = Clock(0, 2, TimeOf(10, 0))
    /\ bot_sent = <<>>
    /\ bot_db = {}

NextTasks ==
    \/ AutoSignalWakes /\ UNCHANGED <<ensVars, riskVars, botVars, btVars, metVars, wfVars, regVars, driftVars, corrVars, batchVars, buildVars, genVars, alertVars, conflictVars, trendVars, regimeFilterVars, walkVars, windowVars>>
    \/ AutoSignalSent /\ UNCHANGED <<ensVars, riskVars, botVars, btVars, metVars, wfVars, regVars, driftVars, corrVars, batchVars, buildVars, genVars, alertVars, conflictVars, trendVars, regimeFilterVars, walkVars, windowVars>>
    \/ AutoSignalCancelled /\ UNCHANGED <<ensVars, riskVars, botVars, btVars, metVars, wfVars, regVars, driftVars, corrVars, batchVars, buildVars, genVars, alertVars, conflictVars, trendVars, regimeFilterVars, walkVars, windowVars>>
    \/ HourlyStatusWakes /\ UNCHANGED <<ensVars, riskVars, botVars, btVars, metVars, wfVars, regVars, driftVars, corrVars, batchVars, buildVars, genVars, alertVars, conflictVars, trendVars, regimeFilterVars, walkVars, windowVars>>
    \/ HourlyStatusSent /\ UNCHANGED <<ensVars, riskVars, botVars, btVars, metVars, wfVars, regVars, driftVars, corrVars, batchVars, buildVars, genVars, alertVars, conflictVars, trendVars, regimeFilterVars, walkVars, windowVars>>
    \/ HourlyStatusCancelled /\ UNCHANGED <<ensVars, riskVars, botVars, btVars, metVars, wfVars, regVars, driftVars, corrVars, batchVars, buildVars, genVars, alertVars, conflictVars, trendVars, regimeFilterVars, walkVars, windowVars>>
    \/ LearningWakes /\ UNCHANGED <<ensVars, riskVars, botVars, btVars, metVars, wfVars, regVars, driftVars, corrVars, batchVars, buildVars, genVars, alertVars, conflictVars, trendVars, regimeFilterVars, walkVars, windowVars>>
    \/ CancelBotTasks /\ UNCHANGED <<ensVars, riskVars, botVars, btVars, metVars, wfVars, regVars, driftVars, corrVars, batchVars, buildVars, genVars, alertVars, conflictVars, trendVars, regimeFilterVars, walkVars, windowVars>>
    \/ StopLearning /\ UNCHANGED <<ensVars, riskVars, botVars, btVars, metVars, wfVars, regVars, driftVars, corrVars, batchVars, buildVars, genVars, alertVars, conflictVars, trendVars, regimeFilterVars, walkVars, windowVars>>

SpecTasks ==
    InitTasks /\ [][NextTasks]_vars

InitBuild ==
    BuildInit /\ EnsIdle /\ RiskIdle /\ BotIdle /\ BtIdle /\ MetIdle /\ WfIdle /\ RegIdle /\ DriftIdle /\ CorrIdle /\ BatchIdle /\ TaskIdle /\ GenIdle /\ AlertIdle /\ ConflictIdle /\ TrendIdle /\ RegimeFilterIdle /\ WalkIdle /\ WindowsIdle

NextBuild ==
    \/ BuildConfig /\ UNCHANGED <<ensVars, riskVars, botVars, btVars, metVars, wfVars, regVars, driftVars, corrVars, batchVars, taskVars, genVars, alertVars, conflictVars, trendVars, regimeFilterVars, walkVars, windowVars>>
    \/ BuildEnsemble /\ UNCHANGED <<ensVars, riskVars, botVars, btVars, metVars, wfVars, regVars, driftVars, corrVars, batchVars, taskVars, genVars, alertVars, conflictVars, trendVars, regimeFilterVars, walkVars, windowVars>>
    \/ BuildWalkForward /\ UNCHANGED <<ensVars, riskVars, botVars, btVars, metVars, wfVars, regVars, driftVars, corrVars, batchVars, taskVars, genVars, alertVars, conflictVars, trendVars, regimeFilterVars, walkVars, windowVars>>
    \/ BuildDriftDetector /\ UNCHANGED <<ensVars, riskVars, botVars, btVars, metVars, wfVars, regVars, driftVars, corrVars, batchVars, taskVars, genVars, alertVars, conflictVars, trendVars, regimeFilterVars, walkVars, windowVars>>
    \/ BuildCorrelationManager /\ UNCHANGED <<ensVars, riskVars, botVars, btVars, metVars, wfVars, regVars, driftVars, corrVars, batchVars, taskVars, genVars, alertVars, conflictVars, trendVars, regimeFilterVars, walkVars, windowVars>>

SpecBuild ==
    InitBuild /\ [][NextBuild]_vars

InitGenerator ==
    GenInit /\ EnsIdle /\ RiskIdle /\ BotIdle /\ BtIdle /\ MetIdle /\ WfIdle /\ RegIdle /\ DriftIdle /\ CorrIdle /\ BatchIdle /\ TaskIdle /\ BuildIdle /\ AlertIdle /\ ConflictIdle /\ TrendIdle /\ RegimeFilterIdle /\ WalkIdle /\ WindowsIdle

NextGenerator ==
    GenerateBatch /\ UNCHANGED <<ensVars, riskVars, botVars, btVars, metVars, wfVars, regVars, driftVars, corrVars, batchVars, taskVars, buildVars, alertVars, conflictVars, trendVars, regimeFilterVars, walkVars, windowVars>>

SpecGenerator ==
    InitGenerator /\ [][NextGenerator]_vars

InitAlert ==
    AlertInit /\ EnsIdle /\ RiskIdle /\ BotIdle /\ BtIdle /\ MetIdle /\ WfIdle /\ RegIdle /\ DriftIdle /\ CorrIdle /\ BatchIdle /\ TaskIdle /\ BuildIdle /\ GenIdle /\ ConflictIdle /\ TrendIdle /\ RegimeFilterIdle /\ WalkIdle /\ WindowsIdle

NextAlert ==
    \/ AlertClockTick /\ UNCHANGED <<ensVars, riskVars, botVars, btVars, metVars, wfVars, regVars, driftVars, corrVars, batchVars, taskVars, buildVars, genVars, conflictVars, trendVars, regimeFilterVars, walkVars, windowVars>>
    \/ MarkAlertSent /\ UNCHANGED <<ensVars, riskVars, botVars, btVars, metVars, wfVars, regVars, driftVars, corrVars, batchVars, taskVars, buildVars, genVars, conflictVars, trendVars, regimeFilterVars, walkVars, windowVars>>
    \/ ShouldSendAlert /\ UNCHANGED <<ensVars, riskVars, botVars, btVars, metVars, wfVars, regVars, driftVars, corrVars, batchVars, taskVars, buildVars, genVars, conflictVars, trendVars, regimeFilterVars, walkVars, windowVars>>

SpecAlert ==
    InitAlert /\ [][NextAlert]_vars

InitConflict ==
    ConflictInit /\ EnsIdle /\ RiskIdle /\ BotIdle /\ BtIdle /\ MetIdle /\ WfIdle /\ RegIdle /\ DriftIdle /\ CorrIdle /\ BatchIdle /\ TaskIdle /\ BuildIdle /\ GenIdle /\ AlertIdle /\ TrendIdle /\ RegimeFilterIdle /\ WalkIdle /\ WindowsIdle

NextConflict ==
    \/ CheckCorrelationConflict /\ UNCHANGED <<ensVars, riskVars, botVars, btVars, metVars, wfVars, regVars, driftVars, corrVars, batchVars, taskVars, buildVars, genVars, alertVars, trendVars, regimeFilterVars, walkVars, windowVars>>
    \/ FilterSignalByCorrelation /\ UNCHANGED <<ensVars, riskVars, botVars, btVars, metVars, wfVars, regVars, driftVars, corrVars, batchVars, taskVars, buildVars, genVars, alertVars, trendVars, regimeFilterVars, walkVars, windowVars>>

SpecConflict ==
    InitConflict /\ [][NextConflict]_vars

InitTrend ==
    TrendInit /\ EnsIdle /\ RiskIdle /\ BotIdle /\ BtIdle /\ MetIdle /\ WfIdle /\ RegIdle /\ DriftIdle /\ CorrIdle /\ BatchIdle /\ TaskIdle /\ BuildIdle /\ GenIdle /\ ConflictIdle /\ AlertIdle /\ RegimeFilterIdle /\ WalkIdle /\ WindowsIdle

NextTrend ==
    \/ CheckMultiTimeframeTrend /\ UNCHANGED <<ensVars, riskVars, botVars, btVars, metVars, wfVars, regVars, driftVars, corrVars, batchVars, taskVars, buildVars, genVars, alertVars, conflictVars, regimeFilterVars, walkVars, windowVars>>
    \/ FilterSignalByTrend /\ UNCHANGED <<ensVars, riskVars, botVars, btVars, metVars, wfVars, regVars, driftVars, corrVars, batchVars, taskVars, buildVars, genVars, alertVars, conflictVars, regimeFilterVars, walkVars, windowVars>>

SpecTrend ==
    InitTrend /\ [][NextTrend]_vars

InitRegimeFilter ==
    RegimeFilterInit /\ EnsIdle /\ RiskIdle /\ BotIdle /\ BtIdle /\ MetIdle /\ WfIdle /\ RegIdle /\ DriftIdle /\ CorrIdle /\ BatchIdle /\ TaskIdle /\ BuildIdle /\ GenIdle /\ ConflictIdle /\ TrendIdle /\ AlertIdle /\ WalkIdle /\ WindowsIdle

NextRegimeFilter ==
    \/ FilterStrategiesByRegime /\ UNCHANGED <<ensVars, riskVars, botVars, btVars, metVars, wfVars, regVars, driftVars, corrVars, batchVars, taskVars, buildVars, genVars, alertVars, conflictVars, trendVars, walkVars, windowVars>>

SpecRegimeFilter ==
    InitRegimeFilter /\ [][NextRegimeFilter]_vars

InitWalk ==
    WalkInit /\ EnsIdle /\ RiskIdle /\ BotIdle /\ BtIdle /\ MetIdle /\ WfIdle /\ RegIdle /\ DriftIdle /\ CorrIdle /\ BatchIdle /\ TaskIdle /\ BuildIdle /\ GenIdle /\ ConflictIdle /\ TrendIdle /\ RegimeFilterIdle /\ AlertIdle /\ WindowsIdle

NextWalk ==
    \/ ExecuteRow /\ UNCHANGED <<ensVars, riskVars, botVars, btVars, metVars, wfVars, regVars, driftVars, corrVars, batchVars, taskVars, buildVars, genVars, alertVars, conflictVars, trendVars, regimeFilterVars, windowVars>>
    \/ ExecuteReturn /\ UNCHANGED <<ensVars, riskVars, botVars, btVars, metVars, wfVars, regVars, driftVars, corrVars, batchVars, taskVars, buildVars, genVars, alertVars, conflictVars, trendVars, regimeFilterVars, windowVars>>

SpecWalk ==
    InitWalk /\ [][NextWalk]_vars

InitWindows ==
    WindowsInit /\ EnsIdle /\ RiskIdle /\ BotIdle /\ BtIdle /\ MetIdle /\ WfIdle /\ RegIdle /\ DriftIdle /\ CorrIdle /\ BatchIdle /\ TaskIdle /\ BuildIdle /\ GenIdle /\ ConflictIdle /\ TrendIdle /\ RegimeFilterIdle /\ WalkIdle /\ AlertIdle

NextWindows ==
    \/ GenerateWindowsEnter /\ UNCHANGED <<ensVars, riskVars, botVars, btVars, metVars, wfVars, regVars, driftVars, corrVars, batchVars, taskVars, buildVars, genVars, alertVars, conflictVars, trendVars, regimeFilterVars, walkVars>>
    \/ GenerateWindowsTest /\ UNCHANGED <<ensVars, riskVars, botVars, btVars, metVars, wfVars, regVars, driftVars, corrVars, batchVars, taskVars, buildVars, genVars, alertVars, conflictVars, trendVars, regimeFilterVars, walkVars>>
    \/ GenerateWindowsStep /\ UNCHANGED <<ensVars, riskVars, botVars, btVars, metVars, wfVars, regVars, driftVars, corrVars, batchVars, taskVars, buildVars, genVars, alertVars, conflictVars, trendVars, regimeFilterVars, walkVars>>
    \/ GenerateWindowsReturn /\ UNCHANGED <<ensVars, riskVars, botVars, btVars, metVars, wfVars, regVars, driftVars, corrVars, batchVars, taskVars, buildVars, genVars, alertVars, conflictVars, trendVars, regimeFilterVars, walkVars>>

SpecWindows ==
    InitWindows /\ [][NextWindows]_vars

(***************************************************************************)
(* Properties of the Ensemble Decision Engine                              *)
(***************************************************************************)
\* the strategies generate_signal polls: all of them, or those the regime
\* filter keeps
PolledIds ==
    {i \in 1..Len(strategies) :
        use_regime_filter =>
            get_strategy_compatibility(strategies[i].type, ens_in.regime)
                >= EnsembleMinCompatibility}

BuyVoters ==
    {i \in PolledIds : ens_in.polls[i].kind = "long"}

SellVoters ==
    {i \in PolledIds : ens_in.polls[i].kind = "short"}

VotesCast ==
    Cardinality(BuyVoters) + Cardinality(SellVoters)

\* share of the votes cast that are buy / sell votes (0 when none is cast)
BuyFraction ==
    IF VotesCast = 0 THEN FInt(0) ELSE Frac(Cardinality(BuyVoters), VotesCast)

SellFraction ==
    IF VotesCast = 0 THEN FInt(0) ELSE Frac(Cardinality(SellVoters), VotesCast)

SignalFraction ==
    IF ens_signal.direction = "buy" THEN BuyFraction ELSE SellFraction

\* C1: generate_signal returns a signal only if the agreement fraction of the
\* signal's direction is >= min_agreement and the signal's confidence is
\* >= min_confidence, both at once; when the buy-vote fraction and the
\* sell-vote fraction are both below min_agreement it returns None.
C1_SignalNeedsAgreementAndConfidence ==
    ens_pc = "done" =>
        /\ ens_signal # NoneV =>
              /\ FGe(SignalFraction, min_agreement)
              /\ FEq(ens_signal.agreement, SignalFraction)
              /\ FGe(ens_signal.confidence, min_confidence)
        /\ (FLt(BuyFraction, min_agreement) /\ FLt(SellFraction, min_agreement))
              => ens_signal = NoneV

\* a buy signal emitted against a dissenting sell vote at the 0.80 threshold
C1_Witness ==
    /\ ens_pc = "done"
    /\ ens_signal # NoneV
    /\ ens_signal.direction = "buy"
    /\ SellVoters # {}
    /\ min_agreement = Frac(4, 5)
    /\ min_confidence = FInt(80)

\* the number of strategies that voted the direction generate_signal chose
AgreeingVoters ==
    IF ens_locals.direction = "buy" THEN Cardinality(BuyVoters)
    ELSE Cardinality(SellVoters)

\* 0.6 x (agreement x 100) + 0.4 x (mean confidence of the agreeing
\* strategies, each of which reports 70) + min(2 x agreeing, 10), capped at 100
BlendedConfidence(agreement, agreeing) ==
    LET raw == Frac(60 * agreement.n * 10 + 4 * BaseConfidence * agreement.d
                    + 10 * MinInt(2 * agreeing, 10) * agreement.d,
                    10 * agreement.d)
    IN  IF FGt(raw, FInt(100)) THEN FInt(100) ELSE raw

\* C8: when votes are cast and the buy-vote fraction is >= min_agreement the
\* direction is buy with agreement = buy fraction, otherwise sell when the
\* sell fraction is >= min_agreement; with at least one agreeing strategy the
\* confidence before the trend filter is min(100, 0.6 x agreement x 100 +
\* 0.4 x mean strategy confidence + min(2 x agreeing strategies, 10)).
C8_DirectionAndConfidenceFormula ==
    (ens_pc = "done" /\ ens_locals.total_votes > 0) =>
        /\ FGe(BuyFraction, min_agreement) =>
              /\ ens_locals.direction = "buy"
              /\ FEq(ens_locals.agreement, BuyFraction)
        /\ (FLt(BuyFraction, min_agreement) /\ FGe(SellFraction, min_agreement)) =>
              /\ ens_locals.direction = "sell"
              /\ FEq(ens_locals.agreement, SellFraction)
        /\ (ens_locals.direction # "none" /\ AgreeingVoters >= 1) =>
              FEq(ens_locals.confidence,
                  BlendedConfidence(ens_locals.agreement, AgreeingVoters))

\* threshold 0.80, 9 buy votes and 1 sell vote: buy with agreement 0.90
C8_Witness ==
    /\ ens_pc = "done"
    /\ min_agreement = Frac(4, 5)
    /\ Cardinality(BuyVoters) = 9
    /\ Cardinality(SellVoters) = 1
    /\ ens_locals.direction = "buy"
    /\ FEq(ens_locals.agreement, Frac(9, 10))
    /\ FEq(ens_locals.confidence, FInt(92))

\* C9: the agreement fraction compared with the threshold is the number of
\* strategies voting the chosen direction over the number of strategies
\* polled after the regime filter (non-voters count in the denominator), so
\* a signal needs that share of the polled strategies to reach min_agreement.
C9_AgreementOverPolled ==
    (ens_pc = "done" /\ ens_locals.direction # "none") =>
        /\ FEq(ens_locals.agreement, Frac(AgreeingVoters, Cardinality(PolledIds)))
        /\ ens_signal # NoneV =>
              FGe(Frac(AgreeingVoters, Cardinality(PolledIds)), min_agreement)

(***************************************************************************)
(* Properties of the Telegram front-end                                    *)
(***************************************************************************)
\* the <<pair, signal>> couples a message reports
ReportedSignals(m) ==
    IF m.kind = "signal" THEN {<<m.pair, m.signal>>}
    ELSE IF m.kind = "status"
    THEN {<<m.lines[i].pair, m.lines[i].signal>> :
              i \in {j \in 1..Len(m.lines) : m.lines[j].signal # NoneV}}
    ELSE {}

TrendFilterAccepted(signal) ==
    signal.trend_aligned

RiskGateAccepted(pair, signal) ==
    LET safety == check_signal_safety(signal, market[pair].frame, <<>>, bot_now,
                                      MinLiquidityHours, use_news_filter,
                                      use_correlation_filter)
    IN  safety.kind = "returned" /\ safety.is_safe

\* C2: every signal a message of the bot reports for an instrument, on the
\* /signal reply, the automatic alert, the /status reply and the hourly
\* status summary alike, was accepted by the Trend Filter and by the Risk
\* Gate; a Risk Gate rejection leaves no signal reported for the instrument.
C2_ReportedSignalsPassedBothFilters ==
    \A i \in 1..Len(bot_sent) :
        \A r \in ReportedSignals(bot_sent[i]) :
            TrendFilterAccepted(r[2]) /\ RiskGateAccepted(r[1], r[2])

(***************************************************************************)
(* Properties of the Risk Gate                                             *)
(***************************************************************************)
\* the five checks in the order volatility, liquidity, price sanity, news
\* blackout, correlation: whether each is enabled, its verdict on the
\* arguments of the call taken by itself, and the reason it gives
RiskChecks ==
    LET data == risk_in.data
        news == is_trading_allowed(risk_in.now)
        conflict == check_correlation_conflict(risk_in.signal.pair,
                        risk_in.signal.direction, risk_in.existing_positions,
                        CorrelationThreshold, MaxPositionsPerCurrency)
        Verdict(ok) == IF ok THEN "pass" ELSE "fail"
        Check(enabled, verdict, reason) ==
            [enabled |-> enabled, verdict |-> verdict, reason |-> reason]
    IN  << Check(TRUE,
                 IF check_volatility_raises(data) THEN "raise"
                 ELSE Verdict(check_volatility(data)),
                 Reason("Extreme volatility detected", 0, <<>>)),
           Check(TRUE, Verdict(check_liquidity(data, MinLiquidityHours)),
                 Reason("Low liquidity session", 0, <<>>)),
           Check(TRUE, Verdict(check_price_levels(risk_in.signal, data)),
                 Reason("Price levels outside acceptable range", 0, <<>>)),
           Check(use_news_filter, Verdict(news[1]), news[2]),
           Check(use_correlation_filter, Verdict(~conflict.has_conflict),
                 conflict.reason) >>

FailingChecks ==
    LET Fails(c) == c.enabled /\ c.verdict = "fail"
    IN  SelectSeq(RiskChecks, Fails)

AllChecksPass ==
    \A i \in 1..Len(RiskChecks) :
        RiskChecks[i].enabled => RiskChecks[i].verdict = "pass"

\* C5: check_signal_safety returns (False, reason), reason a non-empty
\* message, exactly when at least one enabled check fails, and the reason is
\* then that of the first failing check in the order volatility, liquidity,
\* price sanity, news blackout, correlation; it returns (True, None) exactly
\* when every enabled check passes.
C5_FirstFailingCheckDecides ==
    risk_pc = "done" =>
        /\ (FailingChecks # <<>>) <=>
               /\ risk_out.kind = "returned"
               /\ ~risk_out.is_safe
               /\ risk_out.reason # NoneV
               /\ risk_out.reason.text # ""
        /\ FailingChecks # <<>> => risk_out.reason = Head(FailingChecks).reason
        /\ AllChecksPass <=>
               /\ risk_out.kind = "returned"
               /\ risk_out.is_safe
               /\ risk_out.reason = NoneV

(***************************************************************************)
(* Properties of the backtest engine                                       *)
(***************************************************************************)
\* C3: every result with total_trades = 0, whether no trade was generated
\* or the run fell back on an exception, has win_rate 0, confidence_score 0
\* and max_drawdown 1.0, and no division by zero happened on the way to it
C3_ZeroTradeResultIsWorstCase ==
    \A o \in bt_outcomes :
        o.result.total_trades = 0 =>
            /\ o.result.win_rate = FInt(0)
            /\ o.result.confidence_score = Score(FInt(0), FInt(0))
            /\ o.result.max_drawdown = FInt(1)
            /\ o.caught # "ZeroDivisionError"

\* a run over a full-length series that generated no trade has been made
C3_Witness ==
    /\ \E e \in Engines : bt_runs[e] > 0
    /\ \E o \in bt_outcomes : o.result.total_trades = 0 /\ o.caught = "none"
    /\ Len(bt_data.rows) = MaxBars

PnlAmounts ==
    [i \in 1..Len(met_trades) |-> met_trades[i].pnl.n]

Gains ==
    SumSeq([i \in 1..Len(met_trades) |-> IF PnlAmounts[i] > 0 THEN PnlAmounts[i] ELSE 0])

Losses ==
    SumSeq([i \in 1..Len(met_trades) |-> IF PnlAmounts[i] < 0 THEN -PnlAmounts[i] ELSE 0])

Wins ==
    Cardinality({i \in 1..Len(met_trades) : PnlAmounts[i] > 0})

SevenWinsThreeLosses ==
    /\ Len(met_trades) = 10
    /\ \A i \in 1..10 : PnlAmounts[i] \in {-1, 1}
    /\ Wins = 7

\* C7: for a non-empty trade list win_rate is the share of trades with
\* pnl > 0, total_return the sum of all pnl and profit_factor the sum of the
\* positive pnl over the absolute sum of the negative pnl, 0 when no trade
\* lost; 7 wins of +1 and 3 losses of -1 give 0.70, 4 and 7/3
C7_MetricFormulas ==
    (met_pc = "done" /\ met_trades # <<>>) =>
        /\ met_result.win_rate.n * Len(met_trades) = Wins * met_result.win_rate.d
        /\ met_result.total_return = FInt(Gains - Losses)
        /\ Losses > 0 =>
               met_result.profit_factor.n * Losses = Gains * met_result.profit_factor.d
        /\ Losses = 0 => met_result.profit_factor = FInt(0)
        /\ SevenWinsThreeLosses =>
               /\ met_result.win_rate = Frac(7, 10)
               /\ met_result.profit_factor = Frac(7, 3)
               /\ met_result.total_return = FInt(4)

\* the metrics of 7 wins of +1 and 3 losses of -1 have been computed
C7_Witness ==
    met_pc = "done" /\ SevenWinsThreeLosses

(***************************************************************************)
(* Properties of the Walk-Forward Validator                                *)
(***************************************************************************)
\* the mean win rate of the runs of one side that made trades
SideWinRates(side) ==
    LET Rate(i) == IF side = "train" THEN wf_windows[i].train ELSE wf_windows[i].validation
        traded == {i \in 1..Len(wf_windows) : Rate(i).total_trades > 0}
        RECURSIVE Total(_)
        Total(S) == IF S = {} THEN FInt(0)
                    ELSE LET i == CHOOSE x \in S : TRUE
                         IN  FAdd(Rate(i).win_rate, Total(S \ {i}))
    IN  [count |-> Cardinality(traded), total |-> Total(traded)]

\* validation / training decay of the aggregate win rates is at least 0.85
DecayHolds ==
    LET train == SideWinRates("train")
        validation == SideWinRates("validation")
    IN  /\ train.count > 0 /\ validation.count > 0 /\ train.total.n > 0
        /\ FGe(FMul(validation.total, FInt(100 * train.count)),
               FMul(train.total, FInt(85 * validation.count)))

\* the aggregate validation win rate is at least 0.45
ValidationWinRateHolds ==
    LET validation == SideWinRates("validation")
    IN  /\ validation.count > 0
        /\ FGe(FMul(validation.total, FInt(100)), FInt(45 * validation.count))

\* the mean of 1 - |train - validation| over the windows where both sides
\* traded is at least 0.70
ConsistencyHolds ==
    LET both == {i \in 1..Len(wf_windows) :
                    wf_windows[i].train.total_trades > 0
                    /\ wf_windows[i].validation.total_trades > 0}
        RECURSIVE Gap(_)
        Gap(S) == IF S = {} THEN FInt(0)
                  ELSE LET i == CHOOSE x \in S : TRUE
                       IN  FAdd(FAbs(FSub(wf_windows[i].train.win_rate,
                                          wf_windows[i].validation.win_rate)),
                                Gap(S \ {i}))
    IN  /\ both # {}
        /\ FGe(FInt(30 * Cardinality(both)), FMul(Gap(both), FInt(100)))

\* C6: walk_forward_valid is True only if there are at least min_periods
\* windows, the win-rate decay is at least 0.85, the consistency at least
\* 0.70 and the validation win rate at least 0.45; with fewer windows than
\* min_periods, none included, it is False whatever the win rates
C6_ValidNeedsAllFourCriteria ==
    wf_pc = "done" =>
        /\ wf_result.walk_forward_valid =>
               /\ Len(wf_windows) >= wf_min_periods
               /\ DecayHolds
               /\ ConsistencyHolds
               /\ ValidationWinRateHolds
        /\ Len(wf_windows) < wf_min_periods => ~wf_result.walk_forward_valid

\* a run over exactly min_periods windows has been found valid
C6_Witness ==
    /\ wf_pc = "done"
    /\ wf_result.walk_forward_valid
    /\ Len(wf_windows) = wf_min_periods

(***************************************************************************)
(* Properties of the Regime Classifier                                     *)
(***************************************************************************)
\* the window is one detect_regime accepts
WindowAccepted ==
    reg_close # <<>> /\ Len(reg_close) >= lookback_periods

\* the 50-return volatilities along the window
TrailingVolatilityHistory ==
    DropNa(RollingVariance(PctChange(reg_close), VolatilityHistoryWindow))

\* the volatility of the window's last 20 returns
CurrentVolatility ==
    SampleVariance(TailRows(PctChange(reg_close), CurrentVolatilityWindow))

\* the current volatility is above 1.5 times the 75th percentile of the
\* trailing volatility history
VolatilityHigh ==
    /\ TrailingVolatilityHistory # <<>>
    /\ CurrentVolatility # NaNF
    /\ CompareVolatility(CurrentVolatility, VolatilityPercentileOf(TrailingVolatilityHistory, VolatilityPercentile), VolatileFactor) > 0

DriftJudged ==
    drift_pc = "done" /\ Len(drift_in.recent_trades) >= min_trades_for_detection

DriftReport ==
    drift_out[2]

\* the four checks of the report that fired
FiredChecks ==
    {check \in {"win_rate", "profit_factor", "sharpe_ratio", "distribution"} :
        DriftReport[check].has_drift}

\* the degradations the report carries (a check without a baseline has none)
ReportedDegradations ==
    {DriftReport[check].degradation :
        check \in {c \in {"win_rate", "profit_factor", "sharpe_ratio"} :
                      "degradation" \in DOMAIN DriftReport[c]}}

MaxDegradationAbove(level) ==
    \E deg \in ReportedDegradations : DegradationAbove(deg, level)

ExpectedSeverity ==
    IF Cardinality(FiredChecks) >= 3 THEN "CRITICAL"
    ELSE IF Cardinality(FiredChecks) = 2 \/ MaxDegradationAbove(HighDegradation)
    THEN "HIGH"
    ELSE IF Cardinality(FiredChecks) = 1 \/ MaxDegradationAbove(MediumDegradation)
    THEN "MEDIUM"
    ELSE IF MaxDegradationAbove(FInt(0)) THEN "LOW"
    ELSE "NONE"

\* the share of recent trades with a positive outcome
RecentWinRate ==
    LET trades == drift_in.recent_trades
    IN  Frac(Cardinality({i \in 1..Len(trades) :
                             "outcome" \in DOMAIN trades[i] /\ trades[i].outcome.n > 0}),
             Len(trades))

WinRateScenario ==
    /\ DriftJudged
    /\ FEq(RecentWinRate, Frac(30, 100))
    /\ "win_rate" \in DOMAIN drift_in.baseline_metrics
    /\ drift_in.baseline_metrics.win_rate = Frac(11, 20)

Denoted(name) ==
    <<name[1], name[Len(name)]>>

NoTableEntry ==
    /\ <<corr_in.pair1, corr_in.pair2>> \notin DOMAIN CURRENCY_CORRELATIONS
    /\ <<corr_in.pair2, corr_in.pair1>> \notin DOMAIN CURRENCY_CORRELATIONS

EstimateByCurrency(first, second) ==
    IF first[2] = second[2] THEN (IF first[1] = second[1] THEN 100 ELSE 60)
    ELSE IF first[1] = second[1] THEN -70
    ELSE IF first[1] = second[2] \/ second[1] = first[2] THEN -65
    ELSE 20

\* C12: without price data and without a static-table entry,
\* calculate_correlation returns 1.0 for two names that denote the same base
\* and the same quote currency, whether written 'EURUSD' or 'EUR/USD', and
\* 0.60, -0.70, -0.65 or 0.20 for the other pairs by the currencies shared.
C12_CorrelationByCurrency ==
    (corr_pc = "done" /\ NoTableEntry) =>
        corr_out = EstimateByCurrency(Denoted(corr_in.pair1), Denoted(corr_in.pair2))

(***************************************************************************)
(* Properties of the batch loop                                            *)
(***************************************************************************)
\* the strategies of the batch backtested so far whose signal generation
\* raises on the training data
RaisingStrategies ==
    {i \in 1..Len(batch_results) :
        IsRaised(generate_signals(train_engine, batch_strategies[i]))}

BatchSoFar ==
    /\ Len(batch_results) <= Len(batch_strategies)
    /\ \A i \in 1..Len(batch_results) :
           batch_results[i].strategy_id = batch_strategies[i].id
    /\ \A i \in RaisingStrategies :
           /\ batch_results[i].total_trades = 0
           /\ batch_results[i].confidence_score = Score(FInt(0), FInt(0))
           /\ batch_results[i].max_drawdown = FInt(1)

\* C13: when signal generation or trade execution raises for a strategy,
\* backtest_strategy returns the worst-case result for that strategy
\* (total_trades 0, confidence_score 0, max_drawdown 1.0) instead of
\* propagating, and the batch loop goes on to the next strategy: no
\* exception leaves the loop, the i-th result is the result of the i-th
\* strategy, and when the loop is over there is exactly one result per
\* strategy.
C13_RaisingStrategyGetsWorstCase ==
    /\ batch_pc # "raised"
    /\ BatchSoFar
    /\ batch_pc = "done" => Len(batch_results) = Len(batch_strategies)

\* a finished full batch whose first strategy raised and whose last one did
\* not
C13_Witness ==
    /\ batch_pc = "done"
    /\ Len(batch_strategies) = MaxBatch
    /\ 1 \in RaisingStrategies
    /\ MaxBatch \notin RaisingStrategies

(***************************************************************************)
(* Properties on empty and short price series                              *)
(***************************************************************************)
\* C14: on an empty or too-short price series each component returns its
\* neutral default instead of raising: detect_regime returns 'ranging' with
\* confidence 0.5, walk_forward_backtest without windows returns
\* walk_forward_valid = False, and check_signal_safety on an empty series,
\* with or without a volatility column, returns a decision.
C14_ShortSeriesGetsDefault ==
    /\ (reg_pc = "done" /\ Len(reg_close) < lookback_periods) =>
           reg_out = NeutralRegime
    /\ (wf_pc = "done" /\ wf_windows = <<>>) => ~wf_result.walk_forward_valid
    /\ (risk_pc = "done" /\ risk_in.data.rows = <<>>) => risk_out.kind = "returned"

(***************************************************************************)
(* Properties of the periodic tasks                                        *)
(***************************************************************************)
\* C15: a pass of the signal-check task and of the status-summary task
\* evaluates every instrument of default_pairs, in order, also when the
\* evaluation of some of them raised (data fetch, signal generation, risk
\* check, notification); and an exception ends neither task: a task has
\* terminated only after cancel() was called on it.
C15_ExceptionKeepsPassAndTask ==
    /\ auto_last # NoneV => auto_last.evaluated = default_pairs
    /\ status_last # NoneV => status_last.evaluated = default_pairs
    /\ auto_pc = "terminated" => cancel_requested
    /\ status_pc = "terminated" => cancel_requested

\* both tasks finished a pass in which an exception was caught, and the
\* signal check has started its next pass
C15_Witness ==
    /\ auto_last # NoneV
    /\ auto_last.errors
    /\ auto_last.evaluated = default_pairs
    /\ auto_pc = "sending"
    /\ status_last # NoneV
    /\ status_last.errors

\* C16: on shutdown a periodic task starts no new iteration, lets the
\* iteration in flight run to its end and then terminates: a terminated
\* signal-check or status-summary task has left no pass part-way (for the
\* signal check, no instrument between its notification and the saving of
\* its signal), and the learning task terminates only after stop.
C16_ShutdownCompletesIteration ==
    /\ auto_pc = "terminated" => auto_progress = NoneV
    /\ status_pc = "terminated" => status_progress = NoneV
    /\ learn_pc = "terminated" => ~running

(***************************************************************************)
(* Properties of construction                                              *)
(***************************************************************************)
\* C17: constructing a component with a threshold outside its range raises:
\* an agreement threshold outside 0..1, a confidence threshold outside
\* 0..100, a drift or correlation threshold outside 0..1, a walk-forward
\* window length or step that is not positive.
C17_BadThresholdFailsConstruction ==
    /\ (/\ built_kind \in {"Config", "EnsembleSignalGenerator"}
        /\ ~(InUnit(built_args.agreement) /\ InPercent(built_args.confidence)))
           => IsRaised(built)
    /\ (/\ built_kind \in {"DriftDetector", "CorrelationManager"}
        /\ ~InUnit(built_args.threshold))
           => IsRaised(built)
    /\ (/\ built_kind = "WalkForwardOptimizer"
        /\ (built_args.train <= 0 \/ built_args.validation <= 0
            \/ built_args.step <= 0))
           => IsRaised(built)

(***************************************************************************)
(* Properties of the Strategy Generator                                    *)
(***************************************************************************)
\* C18: generate_batch(N) raises for N <= 0; for N > 0 it returns exactly N
\* strategies and generated_strategies grows by exactly those N, at its end.
C18_BatchOfExactlyN ==
    gen_out # NoneV =>
        IF gen_n <= 0 THEN IsRaised(gen_out)
        ELSE /\ ~IsRaised(gen_out)
             /\ Len(gen_out.returned) = gen_n
             /\ generated_strategies = gen_before \o gen_out.returned

\* C19: two generated strategies with the same identifier are of the same
\* family and have the same parameters.
C19_EqualIdsSameStrategy ==
    \A i, j \in 1..Len(generated_strategies) :
        generated_strategies[i].id = generated_strategies[j].id =>
            /\ generated_strategies[i].type = generated_strategies[j].type
            /\ generated_strategies[i].parameters =
                   generated_strategies[j].parameters

(***************************************************************************)
(* Properties of the alert cooldown                                        *)
(***************************************************************************)
\* the claim's answer for a strategy at the present hour: TRUE when no
\* mark_alert_sent call was made for it, else whether the cooldown has
\* passed since the last such call
CooldownOver(strategy_id) ==
    \/ alert_marked_at[strategy_id] = -1
    \/ alert_now >= alert_marked_at[strategy_id] + alert_cooldown_hours

\* C20: should_send_alert(s) is TRUE for a strategy never marked; after
\* mark_alert_sent(s) at hour t it is FALSE at the hours of
\* [t, t + cooldown) and TRUE from t + cooldown on; the calls made for
\* another strategy do not enter the answer.
C20_CooldownPerStrategy ==
    /\ \A s \in AlertStrategies :
           should_send_alert(last_alert_time, s, alert_now,
                             alert_cooldown_hours) = CooldownOver(s)
    /\ alert_answer # NoneV =>
           alert_answer.answer = CooldownOver(alert_answer.strategy)

\* the first hour after the default cooldown of a strategy, asked while the
\* other strategy, marked later, is still in its cooldown
C20_Witness ==
    /\ alert_answer # NoneV
    /\ alert_answer.answer
    /\ alert_cooldown_hours = DefaultAlertCooldownHours
    /\ alert_marked_at[alert_answer.strategy] # -1
    /\ alert_now = alert_marked_at[alert_answer.strategy] + alert_cooldown_hours
    /\ \E other \in AlertStrategies :
           /\ alert_marked_at[other] > alert_marked_at[alert_answer.strategy]
           /\ ~should_send_alert(last_alert_time, other, alert_now,
                                 alert_cooldown_hours)

(***************************************************************************)
(* Properties of the drawdown                                              *)
(***************************************************************************)
\* some cumulative P&L of the trade list lies below an earlier one
FallsBelowPeak(trades) ==
    LET cumulative == CumSum(PnlOf(trades))
    IN  \E i, j \in 1..Len(trades) : i < j /\ FLt(cumulative[j], cumulative[i])

DrawdownIsZero(drawdown) ==
    ~IsOverEpsilon(drawdown) /\ drawdown.n = 0

\* C21: for a trade list that is not empty, max_drawdown is 0 when the
\* cumulative P&L never falls below an earlier value and positive when some
\* cumulative value lies below an earlier one, whatever the sign of the
\* running peak.
C21_DrawdownPositiveOnDecline ==
    (met_pc = "done" /\ met_trades # <<>> /\ ~IsRaised(met_result)) =>
        (DrawdownIsZero(met_result.max_drawdown) <=> ~FallsBelowPeak(met_trades))

(***************************************************************************)
(* Properties of the conflict check and the signal filter                  *)
(***************************************************************************)
\* the currency a trade buys and the currency it sells
Bought(pair, direction) ==
    IF direction = "buy" THEN Denoted(pair)[1] ELSE Denoted(pair)[2]

Sold(pair, direction) ==
    IF direction = "buy" THEN Denoted(pair)[2] ELSE Denoted(pair)[1]

\* both trades buy one currency or both sell one currency
SameExposure(first, second) ==
    \/ Bought(first.pair, first.direction) = Bought(second.pair, second.direction)
    \/ Sold(first.pair, first.direction) = Sold(second.pair, second.direction)

ConflictPositionsGiven ==
    IF conflict_in.existing_positions = NoneV THEN <<>>
    ELSE conflict_in.existing_positions.list

\* (a) of the claim
CorrelatedSameExposure ==
    \E i \in 1..Len(ConflictPositionsGiven) :
        LET position == ConflictPositionsGiven[i]
        IN  /\ position.pair # conflict_in.signal.pair
            /\ Abs(calculate_correlation(conflict_in.signal.pair, position.pair))
                   >= manager_correlation_threshold
            /\ SameExposure(conflict_in.signal, position)

\* (b) of the claim, a position counted on the currency it buys
ExposureCapExceeded ==
    LET all == Append(ConflictPositionsGiven, conflict_in.signal)
    IN  \E c \in Currencies :
            Cardinality({i \in 1..Len(all) :
                            Bought(all[i].pair, all[i].direction) = c})
                > manager_max_positions

\* C22: check_correlation_conflict reports has_conflict exactly when (a) a
\* position on another instrument is correlated with the new instrument at
\* or above the threshold (in absolute value) and both trades buy the same
\* currency or both sell the same currency, or (b) with the new signal the
\* positions on some currency would exceed max_positions_per_currency.
C22_ConflictIffExposureOrCap ==
    conflict_pc \in {"checked", "done"} =>
        (conflict_out.has_conflict <=>
             (CorrelatedSameExposure \/ ExposureCapExceeded))

\* C25: filter_signal_by_correlation returns None when the check reports a
\* conflict and otherwise the signal with a passed correlation_check, for
\* every list of positions, the empty list and None included; it does not
\* raise.
C25_FilterReturnsSignalOrNone ==
    conflict_pc = "done" =>
        IF conflict_out.has_conflict THEN filter_out.returned = NoneV
        ELSE /\ ~IsRaised(filter_out.returned)
             /\ filter_out.returned # NoneV
             /\ filter_out.returned.pair = conflict_in.signal.pair
             /\ filter_out.returned.direction = conflict_in.signal.direction
             /\ filter_out.returned.correlation_check.passed

(***************************************************************************)
(* Properties of the Trend Filter                                          *)
(***************************************************************************)
\* the trends of the call, and the timeframes that point the way of the
\* alignment reported
TrendsOfCall ==
    detect_trends(tf_in.data_1h, tf_in.data_4h, tf_in.data_1d)

AgreeingTimeframes ==
    {tf \in DOMAIN TrendsOfCall :
        TrendsOfCall[tf].direction = tf_alignment.alignment}

Contradicts(direction, alignment) ==
    \/ direction = "buy" /\ alignment = "bearish"
    \/ direction = "sell" /\ alignment = "bullish"

\* C23: filter_signal_by_trend returns the signal exactly when the
\* alignment is not neutral, at least min_timeframe_alignment timeframes
\* agree, the weighted score is at least the strength threshold and the
\* direction of the signal does not contradict the alignment; otherwise it
\* returns None.  The confidence of an accepted signal is not below the
\* original, at most 5 above it and at most 100.
C23_TrendFilterAcceptance ==
    tf_pc = "done" =>
        /\ tf_out.returned # NoneV <=>
               /\ tf_alignment.alignment # "neutral"
               /\ Cardinality(AgreeingTimeframes) >= tf_min_alignment
               /\ FGe(tf_alignment.weighted_score, tf_strength_threshold)
               /\ ~Contradicts(tf_in.signal.direction, tf_alignment.alignment)
        /\ tf_out.returned # NoneV =>
               /\ FGe(tf_out.returned.confidence, tf_in.signal.confidence)
               /\ ~FGt(tf_out.returned.confidence,
                       FAdd(tf_in.signal.confidence, FInt(5)))
               /\ ~FGt(tf_out.returned.confidence, FInt(100))
               /\ tf_out.returned.direction = tf_in.signal.direction

\* a signal of confidence 97 accepted with the full boost, cut at 100
C23_Witness ==
    /\ tf_pc = "done"
    /\ tf_out.returned # NoneV
    /\ tf_in.signal.confidence = FInt(97)
    /\ tf_out.returned.confidence = FInt(100)
    /\ FGt(tf_alignment.weighted_score, Frac(8, 10))

\* C30: with the weights 0.5 (daily), 0.3 (4h) and 0.2 (1h), strengths of
\* at most 1 and the default strength threshold 0.6,
\* check_multi_timeframe_trend reports aligned only when the daily
\* timeframe is present and points the way of the alignment; so with the
\* daily frame missing, empty or shorter than 50 bars, filter_signal_by_trend
\* returns None.
C30_AlignedNeedsDaily ==
    tf_strength_threshold = TrendStrengthThreshold =>
        /\ (tf_pc \in {"checked", "done"} /\ tf_alignment.aligned) =>
               /\ "1d" \in DOMAIN TrendsOfCall
               /\ TrendsOfCall["1d"].direction = tf_alignment.alignment
        /\ (/\ tf_pc = "done"
            /\ (tf_in.data_1d = NoneV \/ tf_in.data_1d.bars < MinTrendBars))
               => tf_out.returned = NoneV

\* the 4h and the 1h frame both point up at full strength, the daily frame
\* is too short, and the signal is rejected
C30_Witness ==
    /\ tf_pc = "done"
    /\ tf_strength_threshold = TrendStrengthThreshold
    /\ tf_in.data_1d # NoneV
    /\ tf_in.data_1d.bars = 49
    /\ tf_alignment.alignment = "bullish"
    /\ tf_alignment.weighted_score = Frac(1, 2)
    /\ tf_in.signal.direction = "buy"
    /\ tf_out.returned = NoneV

(***************************************************************************)
(* Properties of the regime filter over the catalog                        *)
(***************************************************************************)
\* the row key the compatibility table holds for a family
TableKey ==
    [ema_cross |-> <<"ema", "cross">>, rsi_reversal |-> <<"rsi", "reversal">>,
     macd_divergence |-> <<"macd">>, bollinger_breakout |-> <<"bollinger">>,
     ichimoku_trend |-> <<"ichimoku">>,
     support_resistance |-> <<"support", "resistance">>,
     volume_breakout |-> <<"volume", "breakout">>,
     atr_range |-> <<"atr", "range">>,
     multi_indicator |-> <<"multi", "indicator">>]

\* the table's entry for a family in a regime (the neutral default for a
\* family the table has no row for)
TableEntry(family, regime) ==
    Get(compatibility[regime], TableKey[family], DefaultCompatibility)

ExcludedByRegime(family) ==
    \A i \in 1..Len(rf_out.returned) :
        rf_out.returned[i] # CatalogStrategy(family)

\* C24: for every family of the catalog and every regime, the score
\* filter_strategies_by_regime compares with the cutoff is the compatibility
\* table's entry for the family in the regime, and a strategy is excluded
\* exactly when that entry is below the cutoff.
C24_CatalogScoreIsTableEntry ==
    rf_pc = "done" =>
        \A i \in 1..Len(rf_families) :
            /\ get_strategy_compatibility(
                   entry_condition_type[rf_families[i]], rf_regime)
                   = TableEntry(rf_families[i], rf_regime)
            /\ ExcludedByRegime(rf_families[i])
                   <=> TableEntry(rf_families[i], rf_regime) < rf_min_compatibility

\* the part of C24 that holds: the families whose entry type starts with
\* the table's own key (macd, ichimoku) are scored with their entry
C24_MacdIchimokuScoredByTable ==
    rf_pc = "done" =>
        \A i \in 1..Len(rf_families) :
            rf_families[i] \in {"macd_divergence", "ichimoku_trend"} =>
                (ExcludedByRegime(rf_families[i])
                    <=> TableEntry(rf_families[i], rf_regime) < rf_min_compatibility)

(***************************************************************************)
(* Properties of the ATR family                                            *)
(***************************************************************************)
\* atr_multiplier as _create_atr_strategy draws it: uniform(1.5, 2.5)
AtrMultiplierChoices ==
    {Frac(3, 2), FInt(2), Frac(5, 2)}

AtrStrategies ==
    {Strategy("strategy_3", <<"atr", "2", "2.0">>, <<"atr", "range">>,
              [atr_period |-> period, atr_multiplier |-> multiplier],
              [range_reversion |-> TRUE]) :
        period \in 1..2, multiplier \in AtrMultiplierChoices}

\* the signals _apply_atr_strategy marks on a series
AtrMarksOn(rows) ==
    UNION {LET frame == apply_atr_strategy(DataFrame(TRUE, rows), strategy).frame
           IN  {frame[i].signal : i \in 1..Len(frame)} :
        strategy \in AtrStrategies}

\* the series of up to MaxBars bars
AtrSeries ==
    SeqsUpTo(BarChoices, MaxBars)

\* C29: there are price series (the one the engine holds or any other) on
\* which _apply_atr_strategy marks a bar long and series on which it marks
\* a bar short, so a backtest of an ATR strategy can produce trades.
C29_AtrMarksLongAndShort ==
    LET marks == UNION {AtrMarksOn(rows) : rows \in AtrSeries \cup {bt_data.rows}}
    IN  /\ 1 \in marks
        /\ -1 \in marks

\* what the code does instead: a backtest of the ATR strategy ends without
\* a single trade on every series
C29_AtrBacktestHasNoTrades ==
    bt_strategy # NoneV =>
        (bt_strategy.id = "strategy_3" =>
            \A e \in Engines : bt_runs[e] > 0 => bt_scratch[e] = <<>>)

(***************************************************************************)
(* Properties of the walk of _execute_trades                               *)
(***************************************************************************)
DirectionOf(signal) ==
    IF signal = 1 THEN "long" ELSE "short"

\* the trades recorded so far pair up: each has its exit at or after its
\* entry, consecutive trades alternate and hand over at the same bar
TradesChain(trades) ==
    /\ \A k \in 1..Len(trades) :
           /\ trades[k].exit_time >= trades[k].entry_time
           /\ trades[k].exit_price = ex_signals[trades[k].exit_time].close
    /\ \A k \in 1..(Len(trades) - 1) :
           /\ trades[k].direction # trades[k + 1].direction
           /\ trades[k].exit_time = trades[k + 1].entry_time

\* what one row does to the open position
RowKeepsOnePosition ==
    LET row == ex_signals[ex_i + 1]
        position == ex_state.position
        after == ex_state'.position
    IN  CASE row.signal = 0 -> ex_state' = ex_state
          [] position = NoneV ->
               /\ after # NoneV
               /\ after.entry_time = ex_i + 1
               /\ after.direction = DirectionOf(row.signal)
               /\ ex_state'.trades = ex_state.trades
          [] position.direction = DirectionOf(row.signal) ->
               ex_state' = ex_state
          [] OTHER ->
               /\ Len(ex_state'.trades) = Len(ex_state.trades) + 1
               /\ SubSeq(ex_state'.trades, 1, Len(ex_state.trades)) = ex_state.trades
               /\ LET closed == ex_state'.trades[Len(ex_state'.trades)]
                  IN  /\ closed.entry_time = position.entry_time
                      /\ closed.direction = position.direction
                      /\ closed.exit_time = ex_i + 1
               /\ after # NoneV
               /\ after.entry_time = ex_i + 1
               /\ after.direction = DirectionOf(row.signal)
               /\ after.direction # position.direction

WalkReturnsClosedTrades ==
    ex_pc = "done" =>
        /\ TradesChain(ex_out.returned)
        /\ ex_out.returned = execute_trades(ex_signals, WalkStrategy,
                                            ex_costs.slippage, ex_costs.spread, <<>>)
        /\ ex_state.position # NoneV =>
               LET last == ex_out.returned[Len(ex_out.returned)]
               IN  /\ last.entry_time = ex_state.position.entry_time
                   /\ last.exit_time = Len(ex_signals)
        /\ ex_state.position = NoneV => ex_out.returned = <<>>

\* C26: during the walk the engine holds at most one open position: one is
\* opened only when flat, a same-direction signal leaves it unchanged, an
\* opposite signal closes it and opens the opposite one at the same bar,
\* and one still open at the end is closed at the last bar; so every
\* recorded trade has an exit, consecutive trades alternate long/short and
\* each trade's exit time is the next trade's entry time.
C26_OnePositionAlternatingTrades ==
    /\ [](ex_pc = "walking" => TradesChain(ex_state.trades))
    /\ []WalkReturnsClosedTrades
    /\ [][ex_i' = ex_i + 1 => RowKeepsOnePosition]_vars

\* a long position kept through a second long signal, reversed on the third
\* row and the short closed at the last bar
C26_Witness ==
    /\ ex_pc = "done"
    /\ Len(ex_signals) = 3
    /\ ex_signals[1].signal = 1
    /\ ex_signals[2].signal = 1
    /\ ex_signals[3].signal = -1
    /\ Len(ex_out.returned) = 2
    /\ ex_out.returned[1].entry_time = 1
    /\ ex_out.returned[1].exit_time = 3
    /\ ex_out.returned[2].direction = "short"
    /\ ex_out.returned[2].exit_time = 3

\* the exit price once slippage and spread are paid
AdjustedExit(trade) ==
    LET cost == FAdd(ex_costs.slippage, ex_costs.spread)
    IN  IF trade.direction = "long"
        THEN FMul(trade.exit_price, FSub(FInt(1), cost))
        ELSE FMul(trade.exit_price, FAdd(FInt(1), cost))

Between(x, low, high) ==
    ~FLt(x, low) /\ ~FGt(x, high)

\* the P&L the claim gives a closed trade
PnlAsClaimed(trade) ==
    LET exit == AdjustedExit(trade)
        entry == trade.entry_price
    IN  IF trade.direction = "long"
        THEN /\ trade.pnl = IF ~FGt(exit, trade.stop_loss)
                            THEN FSub(trade.stop_loss, entry)
                            ELSE IF FGe(exit, trade.take_profit)
                            THEN FSub(trade.take_profit, entry)
                            ELSE FSub(exit, entry)
             /\ Between(trade.pnl, FSub(trade.stop_loss, entry),
                        FSub(trade.take_profit, entry))
        ELSE /\ trade.pnl = IF FGe(exit, trade.stop_loss)
                            THEN FSub(entry, trade.stop_loss)
                            ELSE IF ~FGt(exit, trade.take_profit)
                            THEN FSub(entry, trade.take_profit)
                            ELSE FSub(entry, exit)
             /\ Between(trade.pnl, FSub(entry, trade.stop_loss),
                        FSub(entry, trade.take_profit))

LevelsOrdered(trade) ==
    IF trade.direction = "long"
    THEN ~FGt(trade.stop_loss, trade.take_profit)
    ELSE ~FGt(trade.take_profit, trade.stop_loss)

\* C27: a long trade with stop_loss <= take_profit realises stop_loss -
\* entry when the cost-adjusted exit is at or below the stop, take_profit -
\* entry when it is at or above the target and adjusted exit - entry
\* otherwise, so its P&L lies in [stop_loss - entry, take_profit - entry];
\* a short trade with take_profit <= stop_loss mirrors it, with P&L in
\* [entry - stop_loss, entry - take_profit].
C27_PnlClampedAtStopAndTarget ==
    ex_pc = "done" =>
        \A k \in 1..Len(ex_out.returned) :
            LevelsOrdered(ex_out.returned[k]) => PnlAsClaimed(ex_out.returned[k])

\* a long trade stopped out, then a short one closed between its levels
C27_Witness ==
    /\ ex_pc = "done"
    /\ Len(ex_out.returned) = 2
    /\ LET first == ex_out.returned[1]
           second == ex_out.returned[2]
       IN  /\ first.direction = "long"
           /\ LevelsOrdered(first)
           /\ FLt(AdjustedExit(first), first.stop_loss)
           /\ first.pnl = FSub(first.stop_loss, first.entry_price)
           /\ second.direction = "short"
           /\ LevelsOrdered(second)
           /\ FGt(AdjustedExit(second), second.take_profit)
           /\ FLt(AdjustedExit(second), second.stop_loss)
           /\ second.pnl = FSub(second.entry_price, AdjustedExit(second))

(***************************************************************************)
(* Properties of generate_windows                                          *)
(***************************************************************************)
\* the loop of generate_windows is not held up: a pass that can run, runs
SpecWindowsFair ==
    SpecWindows /\ WF_vars(NextWindows)

\* a returned pair: the training half [s, s + train), the validation half
\* [s + train, s + train + validation), s a whole number of steps after the
\* first timestamp, the validation half within the frame
WindowWellFormed(window) ==
    LET day == gw_data.bars_per_day
        s == window.train_start
    IN  /\ \E k \in 0..gw_data.rows : s = k * gw_config.step_days * day
        /\ window.train_end = s + gw_config.train_period_days * day
        /\ window.validation_start = window.train_end
        /\ window.validation_end =
               window.validation_start + gw_config.validation_period_days * day
        /\ window.validation_end <= gw_data.rows - 1
        /\ window.train_data = RowsBetween(gw_data, s, window.train_end)
        /\ window.validation_data =
               RowsBetween(gw_data, window.validation_start, window.validation_end)
        /\ window.train_data \cap window.validation_data = {}
        /\ \A a \in window.train_data : \A b \in window.validation_data : a < b

WindowsWellFormed ==
    gw_pc = "done" =>
        /\ \A k \in 1..Len(gw_out.returned) : WindowWellFormed(gw_out.returned[k])
        /\ \A k \in 1..(Len(gw_out.returned) - 1) :
               gw_out.returned[k].train_start < gw_out.returned[k + 1].train_start

\* C28: generate_windows terminates for every configuration the
\* constructor accepts, and returns the pairs in increasing start order,
\* each with training interval [s, s + train) and validation interval
\* [s + train, s + train + validation), s = first timestamp + k * step and
\* s + train + validation <= last timestamp; no bar is in both halves and
\* every validation bar is later than every training bar.
C28_WindowsTerminateInOrder ==
    /\ <>(gw_pc = "done")
    /\ []WindowsWellFormed

\* the part of C28 that holds: with a positive step the call returns, and
\* whatever is returned is well formed
C28_PositiveStepTerminates ==
    /\ (gw_pc = "ready" /\ gw_config.step_days > 0) ~> (gw_pc = "done")
    /\ []WindowsWellFormed

\* a call that returned two windows exists
WindowsReturned ==
    gw_pc = "done" /\ Len(gw_out.returned) >= 2
====
